---------------------------- MODULE Spec2Model ----------------------------
(***************************************************************************)
(* A model of the KeywordBuilder generation engine (keyword_builder.py)    *)
(* and of the guided command line flow that drives it (run.py).            *)
(*                                                                         *)
(* A Python str is modelled as a sequence of one-character strings, so     *)
(* that joining, placeholder extraction, replacement and whitespace        *)
(* normalisation are computed character by character, as the code does.    *)
(* An Optional value is modelled as a sequence of length 0 (None) or       *)
(* 1 (the value).                                                          *)
(***************************************************************************)
EXTENDS Integers, Sequences, FiniteSets, TLC

VARIABLES
    pc,             \* which entry point runs and how far it has come
    core_phrase,    \* generate_keywords_with_core: argument core_phrase
    fields,         \* generate_keywords_with_core: argument fields
    min_fields,     \* generate_keywords_with_core: argument min_fields
    results,        \* generate_keywords_with_core: returned list
    tmpl,           \* render_template: argument tmpl
    mapping,        \* render_template: argument mapping
    rendered,       \* render_template: returned Optional[str]
    keywords,       \* dedupe_preserve_order: argument keywords
    unique_keywords, \* dedupe_preserve_order: returned list
    deduped_again,  \* dedupe_preserve_order applied to its own result
    use_template,   \* guided_flow: template mode chosen
    core_keywords,  \* the loaded core phrases
    secondary_rows, \* the loaded positional secondary rows
    secondary_dict_rows, \* the loaded (and merged) keyed secondary rows
    headers_union,  \* guided_flow: header names of all secondary sources
    templates,      \* the loaded template strings
    example,        \* guided_flow: the preview lines
    group_key,      \* guided_flow: the chosen grouping key
    split_output,   \* guided_flow: split the output by group
    raw_keywords,   \* the generated phrases, duplicates included
    kw_to_group,    \* guided_flow: phrase -> group value
    row_idx,        \* guided_flow: position of the generation loop, row
    core_idx,       \* guided_flow: position of the generation loop, core
    source_headers, \* guided_flow: the header list of each secondary source
    table_template, \* guided_flow: the template file is a multi-column table
    tmpl_headers,   \* guided_flow: the header list of the template table
    tmpl_rows,      \* guided_flow: the rows of the template table
    raw_rows,       \* guided_flow: the generated table rows, duplicates included
    unique_rows,    \* guided_flow: the table rows after de-duplication
    written_csv,    \* the calls of write_csv_output: (path, headers, rows)
    clean,          \* guided_flow: duplicates are removed before saving
    final_keywords, \* the phrases to save, before match-type wrapping
    match_type,     \* guided_flow: 0 broad, 1 phrase, 2 exact
    written,        \* the calls of write_output in order: (path, lines)
    gen_calls       \* how many times the entry point has called a generator

genVars == <<core_phrase, fields, min_fields, results>>

renderVars == <<tmpl, mapping, rendered>>

dedupeVars == <<keywords, unique_keywords, deduped_again>>

inputVars == <<use_template, core_keywords, secondary_rows, secondary_dict_rows,
               headers_union, templates>>

flowVars == <<example, group_key, split_output, kw_to_group, row_idx, core_idx>>

tableVars == <<source_headers, table_template, tmpl_headers, tmpl_rows, raw_rows,
               unique_rows, written_csv>>

outVars == <<clean, final_keywords, match_type, written, gen_calls>>

vars == <<pc, genVars, renderVars, dedupeVars, inputVars, raw_keywords, flowVars,
          tableVars, outVars>>

---------------------------------------------------------------------------
(* Optional values and general sequence helpers *)

None == <<>>

Some(v) == <<v>>

\* the result of an operator applied outside the domain it models: no value
\* is specified and none can be computed
NoValue == CHOOSE v \in {} : TRUE

Range(s) == {s[i] : i \in 1..Len(s)}

RECURSIVE FlattenSeq(_)
FlattenSeq(ss) ==
    IF ss = <<>> THEN <<>> ELSE Head(ss) \o FlattenSeq(Tail(ss))

RemoveAt(s, i) == SubSeq(s, 1, i - 1) \o SubSeq(s, i + 1, Len(s))

SeqsUpTo(S, n) == UNION {[1..k -> S] : k \in 0..n}

---------------------------------------------------------------------------
(* str.join: the parts separated by sep *)

RECURSIVE Join(_, _)
Join(sep, parts) ==
    IF parts = <<>> THEN <<>>
    ELSE IF Len(parts) = 1 THEN parts[1]
    ELSE parts[1] \o sep \o Join(sep, Tail(parts))

SPACE == <<" ">>

---------------------------------------------------------------------------
(* itertools.combinations(pool, r): the r-length subsequences, in the      *)
(* lexicographic order of their positions in pool.                         *)

RECURSIVE combinations(_, _)
combinations(pool, r) ==
    IF r = 0 THEN << <<>> >>
    ELSE IF Len(pool) < r THEN <<>>
    ELSE LET rest == combinations(Tail(pool), r - 1)
             withHead == [k \in 1..Len(rest) |-> <<Head(pool)>> \o rest[k]]
         IN  withHead \o combinations(Tail(pool), r)

(* itertools.permutations(pool, r): the r-length arrangements, in the      *)
(* lexicographic order of their positions in pool.                         *)

permutationsReversed(pool, r) ==
    LET RECURSIVE P(_, _)
        P(q, k) ==
            IF k = 0 THEN << <<>> >>
            ELSE IF Len(q) < k THEN <<>>
            ELSE FlattenSeq([i \in 1..Len(q) |->
                    LET j == Len(q) + 1 - i
                        rest == P(RemoveAt(q, j), k - 1)
                    IN  [m \in 1..Len(rest) |-> <<q[j]>> \o rest[m]]])
    IN  P(pool, r)

RECURSIVE permutations(_, _)
permutations(pool, r) ==
    IF r = 0 THEN << <<>> >>
    ELSE IF Len(pool) < r THEN <<>>
    ELSE FlattenSeq([i \in 1..Len(pool) |->
            LET rest == permutations(RemoveAt(pool, i), r - 1)
            IN  [m \in 1..Len(rest) |-> <<pool[i]>> \o rest[m]]])

---------------------------------------------------------------------------
(* generate_keywords_with_core *)

Min(a, b) == IF a < b THEN a ELSE b

\* start_len = min(min_fields, max_len) if min_fields else max_len: 0 taken
\* for "not given"
StartLenZeroAsDefault(mf, max_len) ==
    IF mf = None \/ mf[1] = 0 THEN max_len ELSE Min(mf[1], max_len)

\* start_len = min_fields if min_fields is not None else max_len: no clamping
StartLenUnclamped(mf, max_len) == IF mf = None THEN max_len ELSE mf[1]

\* start_len = min(min_fields, max_len) if min_fields is not None else max_len
StartLen(mf, max_len) == IF mf = None THEN max_len ELSE Min(mf[1], max_len)

\* the innermost loop, one position short: for pos in range(length)
InsertCoreShort(core, perm) ==
    [p \in 1..Len(perm) |->
        Join(SPACE, SubSeq(perm, 1, p - 1) \o <<core>> \o SubSeq(perm, p, Len(perm)))]

\* the innermost loop: for pos in range(length + 1), parts joined by " "
InsertCore(core, perm) ==
    [p \in 1..(Len(perm) + 1) |->
        Join(SPACE, SubSeq(perm, 1, p - 1) \o <<core>> \o SubSeq(perm, p, Len(perm)))]

\* for perm in itertools.permutations(combo, length)
PhrasesOfCombo(core, combo) ==
    LET perms == permutations(combo, Len(combo))
    IN  FlattenSeq([k \in 1..Len(perms) |-> InsertCore(core, perms[k])])

\* for combo in itertools.combinations(fields, length)
PhrasesOfLength(core, flds, length) ==
    LET combos == combinations(flds, length)
    IN  FlattenSeq([k \in 1..Len(combos) |-> PhrasesOfCombo(core, combos[k])])

generate_keywords_with_core(core, flds, mf) ==
    LET max_len == Len(flds)
        start_len == StartLen(mf, max_len)
    IN  FlattenSeq([k \in 1..(max_len + 1 - start_len) |->
            PhrasesOfLength(core, flds, start_len + k - 1)])

---------------------------------------------------------------------------
(* The variables of an entry point that is not the one running *)

GenIdle ==
    /\ core_phrase = <<>>
    /\ fields = <<>>
    /\ min_fields = None
    /\ results = <<>>

RenderIdle ==
    /\ tmpl = <<>>
    /\ mapping = <<>>
    /\ rendered = None

DedupeIdle ==
    /\ keywords = <<>>
    /\ unique_keywords = <<>>
    /\ deduped_again = <<>>

InputsIdle ==
    /\ use_template = FALSE
    /\ core_keywords = <<>>
    /\ secondary_rows = <<>>
    /\ secondary_dict_rows = <<>>
    /\ headers_union = <<>>
    /\ templates = <<>>

FlowIdle ==
    /\ example = <<>>
    /\ group_key = <<>>
    /\ split_output = FALSE
    /\ kw_to_group = <<>>
    /\ row_idx = 0
    /\ core_idx = 0

TableIdle ==
    /\ source_headers = <<>>
    /\ table_template = FALSE
    /\ tmpl_headers = <<>>
    /\ tmpl_rows = <<>>
    /\ raw_rows = <<>>
    /\ unique_rows = <<>>
    /\ written_csv = <<>>

OutIdle ==
    /\ clean = TRUE
    /\ final_keywords = <<>>
    /\ match_type = 0
    /\ written = <<>>
    /\ gen_calls = 0

PipelineIdle == InputsIdle /\ raw_keywords = <<>> /\ FlowIdle /\ TableIdle /\ OutIdle

---------------------------------------------------------------------------
(* Inputs of the permutation generator *)

MaxFields == 3

MaxMinFields == 4

CorePhrases == {<<"X">>, <<"a", " ", "b">>}

FieldAtoms == {<<"a">>, <<"b">>}

MinFieldsChoices == {None} \cup {Some(k) : k \in 0..MaxMinFields}

InitGen ==
    /\ pc = "gen_call"
    /\ core_phrase \in CorePhrases
    /\ fields \in SeqsUpTo(FieldAtoms, MaxFields)
    /\ min_fields \in MinFieldsChoices
    /\ results = <<>>
    /\ RenderIdle
    /\ DedupeIdle
    /\ PipelineIdle

CallGenerate ==
    /\ pc = "gen_call"
    /\ results' = generate_keywords_with_core(core_phrase, fields, min_fields)
    /\ pc' = "gen_done"
    /\ UNCHANGED <<core_phrase, fields, min_fields, renderVars, dedupeVars,
                   inputVars, raw_keywords, flowVars, tableVars, outVars>>

NextGen == CallGenerate

SpecGen == InitGen /\ [][NextGen]_vars

---------------------------------------------------------------------------
(* Properties of generate_keywords_with_core *)

RECURSIVE Factorial(_)
Factorial(n) == IF n = 0 THEN 1 ELSE n * Factorial(n - 1)

\* The enumeration keys <<length>> \o combo \o perm \o <<pos>>: combo the
\* increasing positions chosen in fields, perm an arrangement of 1..length
\* (positions within the combination), pos the number of fields before the core.
GenKeys(n, start) ==
    UNION {
        {<<l>> \o c \o p \o <<pos>> :
            c \in {c \in [1..l -> 1..n] : \A i \in 1..(l - 1) : c[i] < c[i + 1]},
            p \in {p \in [1..l -> 1..l] : \A i, j \in 1..l : i # j => p[i] # p[j]},
            pos \in 0..l}
        : l \in start..n}

LexLess(s, t) ==
    \E i \in 1..Min(Len(s), Len(t)) :
        /\ s[i] < t[i]
        /\ \A j \in 1..(i - 1) : s[j] = t[j]

PhraseOfKey(core, flds, key) ==
    LET l == key[1]
        arranged == [i \in 1..l |-> flds[key[1 + key[1 + l + i]]]]
        pos == key[2 * l + 2]
    IN  Join(SPACE, SubSeq(arranged, 1, pos) \o <<core>> \o SubSeq(arranged, pos + 1, l))

\* C1: generate_keywords_with_core(core, [], minFields) returns an empty
\* sequence for every core phrase and every minFields (None or >= 0).
C1_EmptyFieldsGiveEmptyResult ==
    (pc = "gen_done" /\ fields = <<>>) => results = <<>>

\* C2: with minFields = None and n fields the result has exactly
\* n! * (n + 1) elements, duplicates included.
C2_DefaultCount ==
    (pc = "gen_done" /\ min_fields = None) =>
        Len(results) = Factorial(Len(fields)) * (Len(fields) + 1)

C2_Witness ==
    /\ pc = "gen_done"
    /\ min_fields = None
    /\ Len(fields) = 3
    /\ Len(results) = 24

\* C3: the phrases come in the order subset length ascending from start to n,
\* combinations in field order, permutations in lexical position order,
\* insertion position ascending, each phrase being
\* permutation[0:p] + [core] + permutation[p:] joined by single spaces; and
\* fields = [a, b] with core X gives X a b, a X b, a b X, X b a, b X a, b a X.
C3_EnumerationOrder ==
    pc = "gen_done" =>
        LET n == Len(fields)
            keys == GenKeys(n, StartLen(min_fields, n))
            rank(key) == 1 + Cardinality({k \in keys : LexLess(k, key)})
        IN  /\ Len(results) = Cardinality(keys)
            /\ \A key \in keys :
                  results[rank(key)] = PhraseOfKey(core_phrase, fields, key)
            /\ (/\ fields = << <<"a">>, <<"b">> >>
                /\ core_phrase = <<"X">>
                /\ min_fields = None) =>
                  results = << <<"X", " ", "a", " ", "b">>,
                               <<"a", " ", "X", " ", "b">>,
                               <<"a", " ", "b", " ", "X">>,
                               <<"X", " ", "b", " ", "a">>,
                               <<"b", " ", "X", " ", "a">>,
                               <<"b", " ", "a", " ", "X">> >>

C3_Witness ==
    /\ pc = "gen_done"
    /\ fields = << <<"a">>, <<"b">>, <<"a">> >>
    /\ min_fields = Some(1)
    /\ Len(results) = 48
    /\ results[1] = core_phrase \o <<" ", "a">>
    /\ results[48] = <<"a", " ", "b", " ", "a", " ">> \o core_phrase

\* C15: with minFields = 0 and a non-empty field list the result starts with
\* the core phrase alone (the empty-subset case), contains it exactly once,
\* and continues with the phrases for the subset lengths 1..n.
C15_ZeroMinFieldsCoreAlone ==
    (pc = "gen_done" /\ min_fields = Some(0) /\ fields # <<>>) =>
        /\ results # <<>>
        /\ results[1] = core_phrase
        /\ Cardinality({i \in 1..Len(results) : results[i] = core_phrase}) = 1
        /\ Len(results) = 1 + Cardinality(GenKeys(Len(fields), 1))
        /\ Tail(results) = generate_keywords_with_core(core_phrase, fields, Some(1))

C15_Witness ==
    /\ pc = "gen_done"
    /\ min_fields = Some(0)
    /\ core_phrase = <<"X">>
    /\ fields = << <<"a">>, <<"b">> >>
    /\ Len(results) = 11
    /\ results[1] = <<"X">>
    /\ results[2] = <<"X", " ", "a">>
    /\ results[11] = <<"b", " ", "a", " ", "X">>

\* C16: for a field list of length n and every minFields >= n the result
\* equals the result for minFields = n and the default result (minFields
\* None): minFields is clamped to n.
C16_MinFieldsClamped ==
    (pc = "gen_done" /\ min_fields # None /\ min_fields[1] >= Len(fields)) =>
        /\ results = generate_keywords_with_core(core_phrase, fields, Some(Len(fields)))
        /\ results = generate_keywords_with_core(core_phrase, fields, None)
        /\ Len(results) = Factorial(Len(fields)) * (Len(fields) + 1)

C16_Witness ==
    /\ pc = "gen_done"
    /\ min_fields = Some(MaxMinFields)
    /\ fields = << <<"b">>, <<"a">> >>
    /\ Len(results) = 6
    /\ results[1] = core_phrase \o <<" ", "b", " ", "a">>

---------------------------------------------------------------------------
(* Character level string operations used by render_template *)

\* the characters str.split() and str.strip() treat as whitespace (those of
\* str.isspace()): space, \t, \n, \r, \f, the vertical tab U+000B, the
\* separators U+001C to U+001F, U+0085, U+00A0 and U+1680. A character is a
\* string of length one: a literal that the reader of the module decodes into
\* more than one character is no character of the model. The remaining
\* whitespace of str.isspace() (U+2000 to U+200A, U+2028, U+2029, U+202F,
\* U+205F, U+3000) is rejected inside a string by the parser of the module, as
\* is every character above U+00FF whose low byte is below 0x80: no string of
\* the model holds one.
Whitespace ==
    {c \in {" ", "\t", "\n", "\r", "\f", "", "", "", "", "", "", " ", " "} :
        Len(c) = 1}

\* str.split(): the maximal runs of non-whitespace characters
RECURSIVE SplitFrom(_, _, _)
SplitFrom(s, i, cur) ==
    IF i > Len(s) THEN (IF cur = <<>> THEN <<>> ELSE <<cur>>)
    ELSE IF s[i] \in Whitespace
         THEN (IF cur = <<>> THEN <<>> ELSE <<cur>>) \o SplitFrom(s, i + 1, <<>>)
         ELSE SplitFrom(s, i + 1, Append(cur, s[i]))

Split(s) == SplitFrom(s, 1, <<>>)

\* str.strip(): leading and trailing whitespace removed
RECURSIVE LStrip(_)
LStrip(s) == IF s # <<>> /\ Head(s) \in Whitespace THEN LStrip(Tail(s)) ELSE s

RECURSIVE RStrip(_)
RStrip(s) ==
    IF s # <<>> /\ s[Len(s)] \in Whitespace
    THEN RStrip(SubSeq(s, 1, Len(s) - 1)) ELSE s

Strip(s) == RStrip(LStrip(s))

\* str.replace(old, new) for a non-empty old: every non-overlapping
\* occurrence of old, found left to right, replaced by new
RECURSIVE Replace(_, _, _)
Replace(s, old, new) ==
    IF Len(s) < Len(old) THEN s
    ELSE IF SubSeq(s, 1, Len(old)) = old
         THEN new \o Replace(SubSeq(s, Len(old) + 1, Len(s)), old, new)
         ELSE <<Head(s)>> \o Replace(Tail(s), old, new)

\* the first index >= i of s holding a brace, Len(s) + 1 when there is none
RECURSIVE NextBrace(_, _)
NextBrace(s, i) ==
    IF i > Len(s) \/ s[i] \in {"{", "}"} THEN i ELSE NextBrace(s, i + 1)

\* re.findall(r'{([^{}]+)}', tmpl): scanning left to right, a match is a "{",
\* a non-empty run of non-brace characters and a "}"; the scan resumes after
\* a match, and one character further after a failed attempt
RECURSIVE ExtractFrom(_, _)
ExtractFrom(s, i) ==
    IF i > Len(s) THEN <<>>
    ELSE IF s[i] = "{"
         THEN LET j == NextBrace(s, i + 1)
              IN  IF j <= Len(s) /\ s[j] = "}" /\ j > i + 1
                  THEN <<SubSeq(s, i + 1, j - 1)>> \o ExtractFrom(s, j + 1)
                  ELSE ExtractFrom(s, i + 1)
         ELSE ExtractFrom(s, i + 1)

extract_placeholders(t) == ExtractFrom(t, 1)

---------------------------------------------------------------------------
(* render_template *)

\* for name in placeholders: if name not in mapping / if not mapping[name]
MissingOrEmptyIgnoringEmpty(placeholders, m) ==
    \E i \in 1..Len(placeholders) : placeholders[i] \notin DOMAIN m

MissingOrEmpty(placeholders, m) ==
    \E i \in 1..Len(placeholders) :
        \/ placeholders[i] \notin DOMAIN m
        \/ m[placeholders[i]] = <<>>

\* for name in placeholders: result = result.replace('{' + name + '}', mapping[name])
RECURSIVE SubstituteAll(_, _, _)
SubstituteAll(result, placeholders, m) ==
    IF placeholders = <<>> THEN result
    ELSE SubstituteAll(
            Replace(result, <<"{">> \o Head(placeholders) \o <<"}">>, m[Head(placeholders)]),
            Tail(placeholders), m)

\* only .strip(), the whitespace runs inside the text left as they are
NormaliseStripOnly(result) == Strip(result)

\* " ".join(result.split()).strip()
Normalise(result) == Strip(Join(SPACE, Split(result)))

render_template(t, m) ==
    LET placeholders == extract_placeholders(t)
    IN  IF MissingOrEmpty(placeholders, m) THEN None
        ELSE LET result == Normalise(SubstituteAll(t, placeholders, m))
             IN  IF result # <<>> THEN Some(result) ELSE None

---------------------------------------------------------------------------
(* Inputs of the template renderer *)

MaxSegs == 3

phA == <<"{", "a", "}">>

phB == <<"{", "b", "}">>

TemplateSegs == {phA, phB, <<"x">>, <<" ">>, <<"\t", "\n">>, <<"{">>, <<"}">>}

ExampleTmpl ==
    <<"{", "c", "o", "r", "e", "}", " ", "i", "n", " ", "{", "c", "i", "t", "y", "}">>

sCore == <<"c", "o", "r", "e">>

sCity == <<"c", "i", "t", "y">>

sShoes == <<"s", "h", "o", "e", "s">>

sReno == <<"R", "e", "n", "o">>

ExampleMappings ==
    { [n \in {sCore, sCity} |-> IF n = sCore THEN sShoes ELSE sReno],
      [n \in {sCore} |-> sShoes] }

RenderTemplates ==
    {FlattenSeq(ss) : ss \in SeqsUpTo(TemplateSegs, MaxSegs)} \cup {ExampleTmpl}

RenderValues == {<<>>, <<"x">>, <<" ">>, <<"\r">>, phB}

RenderMappings ==
    UNION {[D -> RenderValues] : D \in SUBSET {<<"a">>, <<"b">>}} \cup ExampleMappings

InitRender ==
    /\ pc = "render_call"
    /\ tmpl \in RenderTemplates
    /\ mapping \in RenderMappings
    /\ rendered = None
    /\ GenIdle
    /\ DedupeIdle
    /\ PipelineIdle

CallRender ==
    /\ pc = "render_call"
    /\ rendered' = render_template(tmpl, mapping)
    /\ pc' = "render_done"
    /\ UNCHANGED <<tmpl, mapping, genVars, dedupeVars, inputVars, raw_keywords, flowVars,
                   tableVars, outVars>>

NextRender == CallRender

SpecRender == InitRender /\ [][NextRender]_vars

---------------------------------------------------------------------------
(* Properties of render_template *)

\* the names between a "{" and the next "}" with no brace in between
PlaceholderNames(t) ==
    {SubSeq(t, ij[1] + 1, ij[2] - 1) :
        ij \in {ij \in (1..Len(t)) \X (1..Len(t)) :
                  /\ t[ij[1]] = "{"
                  /\ t[ij[2]] = "}"
                  /\ ij[2] > ij[1] + 1
                  /\ \A k \in (ij[1] + 1)..(ij[2] - 1) : t[k] \notin {"{", "}"}}}

Unresolved(t, m) ==
    \E name \in PlaceholderNames(t) : name \notin DOMAIN m \/ m[name] = <<>>

AllWhitespace(s) == \A i \in 1..Len(s) : s[i] \in Whitespace

\* the template with each of its own placeholder occurrences replaced by the
\* mapped value, in one pass: text a value brings in is not looked at again
RECURSIVE SubstituteOnce(_, _, _)
SubstituteOnce(t, i, m) ==
    IF i > Len(t) THEN <<>>
    ELSE LET j == NextBrace(t, i + 1)
         IN  IF t[i] = "{" /\ j <= Len(t) /\ t[j] = "}" /\ j > i + 1
             THEN m[SubSeq(t, i + 1, j - 1)] \o SubstituteOnce(t, j + 1, m)
             ELSE <<t[i]>> \o SubstituteOnce(t, i + 1, m)

\* C4: render_template returns None whenever a placeholder name occurring in
\* the template is absent from the mapping or maps to the empty string; when
\* every placeholder resolves and the substituted text is not all whitespace it
\* returns a string; "{core} in {city}" with core=shoes, city=Reno gives
\* "shoes in Reno", and gives no output without city.
C4_RenderNoOutputRule ==
    pc = "render_done" =>
        /\ Unresolved(tmpl, mapping) => rendered = None
        /\ (/\ ~Unresolved(tmpl, mapping)
            /\ ~AllWhitespace(SubstituteAll(tmpl, extract_placeholders(tmpl), mapping)))
              => (rendered # None /\ rendered[1] # <<>>)
        /\ (tmpl = ExampleTmpl /\ DOMAIN mapping = {sCore, sCity}) =>
              rendered = Some(sShoes \o <<" ", "i", "n", " ">> \o sReno)
        /\ (tmpl = ExampleTmpl /\ DOMAIN mapping = {sCore}) => rendered = None

C4_Witness ==
    /\ pc = "render_done"
    /\ tmpl = phA \o <<"x">> \o phB
    /\ DOMAIN mapping = {<<"a">>, <<"b">>}
    /\ mapping[<<"a">>] = <<"x">>
    /\ mapping[<<"b">>] = <<>>
    /\ rendered = None

\* C5: substitution is literal and non-recursive: when all placeholders
\* resolve, the result is the template with each original placeholder
\* occurrence replaced by its mapped value, then whitespace-normalised; text
\* brought in by a value is never itself substituted.
C5_LiteralSubstitution ==
    (pc = "render_done" /\ ~Unresolved(tmpl, mapping) /\ rendered # None) =>
        rendered[1] = Normalise(SubstituteOnce(tmpl, 1, mapping))

\* C6: a returned string is non-empty, has no two consecutive whitespace
\* characters and no leading or trailing whitespace; an empty or all-whitespace
\* substitution result gives None.
C6_RenderNormalised ==
    pc = "render_done" =>
        /\ rendered # None =>
              LET r == rendered[1]
              IN  /\ r # <<>>
                  /\ \A i \in 1..(Len(r) - 1) :
                        ~(r[i] \in Whitespace /\ r[i + 1] \in Whitespace)
                  /\ r[1] \notin Whitespace
                  /\ r[Len(r)] \notin Whitespace
        /\ (/\ ~Unresolved(tmpl, mapping)
            /\ AllWhitespace(SubstituteAll(tmpl, extract_placeholders(tmpl), mapping)))
              => rendered = None

C6_Witness ==
    /\ pc = "render_done"
    /\ tmpl = phA \o <<"\t", "\n">> \o phB
    /\ DOMAIN mapping = {<<"a">>, <<"b">>}
    /\ mapping[<<"a">>] = <<"x">>
    /\ mapping[<<"b">>] = <<"\r">>
    /\ rendered = Some(<<"x">>)

---------------------------------------------------------------------------
(* dedupe_preserve_order (keyword_builder.py and, identically, run.py) *)

\* a scan that keeps an element unless it occurs again later
RECURSIVE DedupeKeepLast(_, _, _)
DedupeKeepLast(kws, seen, out) ==
    IF kws = <<>> THEN out
    ELSE IF Head(kws) \in Range(Tail(kws))
         THEN DedupeKeepLast(Tail(kws), seen, out)
         ELSE DedupeKeepLast(Tail(kws), seen, Append(out, Head(kws)))

\* for kw in keywords: if kw not in seen: seen.add(kw); out.append(kw)
RECURSIVE DedupeScan(_, _, _)
DedupeScan(kws, seen, out) ==
    IF kws = <<>> THEN out
    ELSE IF Head(kws) \notin seen
         THEN DedupeScan(Tail(kws), seen \cup {Head(kws)}, Append(out, Head(kws)))
         ELSE DedupeScan(Tail(kws), seen, out)

\* a scan that forgets an element once it has dropped one repeat of it
RECURSIVE ForgetfulScan(_, _, _)
ForgetfulScan(kws, seen, out) ==
    IF kws = <<>> THEN out
    ELSE IF Head(kws) \notin seen
         THEN ForgetfulScan(Tail(kws), seen \cup {Head(kws)}, Append(out, Head(kws)))
         ELSE ForgetfulScan(Tail(kws), seen \ {Head(kws)}, out)

DedupeOneRepeat(kws) == ForgetfulScan(kws, {}, <<>>)

dedupe_preserve_order(kws) == DedupeScan(kws, {}, <<>>)

MaxKeywords == 5

KeywordAtoms == {<<"a">>, <<"b">>, <<"c">>}

InitDedupe ==
    /\ pc = "dedupe_call"
    /\ keywords \in SeqsUpTo(KeywordAtoms, MaxKeywords)
    /\ unique_keywords = <<>>
    /\ deduped_again = <<>>
    /\ GenIdle
    /\ RenderIdle
    /\ PipelineIdle

CallDedupe ==
    /\ pc = "dedupe_call"
    /\ unique_keywords' = dedupe_preserve_order(keywords)
    /\ pc' = "dedupe_done"
    /\ UNCHANGED <<keywords, deduped_again, genVars, renderVars, inputVars, raw_keywords,
                   flowVars, tableVars, outVars>>

\* dedupe_preserve_order(dedupe_preserve_order(keywords)): the second call
\* takes the list the first one returned
CallDedupeAgain ==
    /\ pc = "dedupe_done"
    /\ deduped_again' = dedupe_preserve_order(unique_keywords)
    /\ pc' = "dedupe_twice"
    /\ UNCHANGED <<keywords, unique_keywords, genVars, renderVars, inputVars,
                   raw_keywords, flowVars, tableVars, outVars>>

NextDedupe == CallDedupe \/ CallDedupeAgain

SpecDedupe == InitDedupe /\ [][NextDedupe]_vars

---------------------------------------------------------------------------
(* Properties of dedupe_preserve_order *)

\* the position of the first occurrence of x in s
FirstPos(s, x) ==
    CHOOSE i \in 1..Len(s) : s[i] = x /\ \A j \in 1..(i - 1) : s[j] # x

\* C8: dedupe_preserve_order returns the sequence of first occurrences: no
\* repeated element, the same set of elements as the input, in the order of
\* their first positions in the input; [a,b,a,c,b] gives [a,b,c].
C8_DedupeFirstOccurrences ==
    pc = "dedupe_done" =>
        /\ \A i, j \in 1..Len(unique_keywords) :
              i # j => unique_keywords[i] # unique_keywords[j]
        /\ Range(unique_keywords) = Range(keywords)
        /\ \A i, j \in 1..Len(unique_keywords) :
              i < j => FirstPos(keywords, unique_keywords[i])
                         < FirstPos(keywords, unique_keywords[j])
        /\ keywords = << <<"a">>, <<"b">>, <<"a">>, <<"c">>, <<"b">> >> =>
              unique_keywords = << <<"a">>, <<"b">>, <<"c">> >>

C8_Witness ==
    /\ pc = "dedupe_done"
    /\ keywords = << <<"a">>, <<"b">>, <<"a">>, <<"c">>, <<"b">> >>
    /\ unique_keywords = << <<"a">>, <<"b">>, <<"c">> >>

\* C21: dedupe is idempotent: for every sequence xs,
\* dedupe_preserve_order(dedupe_preserve_order(xs)) equals
\* dedupe_preserve_order(xs).
C21_DedupeIdempotent ==
    pc = "dedupe_twice" =>
        /\ unique_keywords = dedupe_preserve_order(keywords)
        /\ deduped_again = unique_keywords

\* the second pass ran on the result of a first pass that removed repeats
C21_Witness ==
    /\ pc = "dedupe_twice"
    /\ keywords = << <<"a">>, <<"a">>, <<"a">>, <<"b">>, <<"a">> >>
    /\ unique_keywords = << <<"a">>, <<"b">> >>
    /\ deduped_again = << <<"a">>, <<"b">> >>

---------------------------------------------------------------------------
(* The template expanders *)

\* mapping = {'core': core_phrase}; mapping.update(row): a row's own core
\* field wins
MakeMappingRowWins(row, core) ==
    [n \in (DOMAIN row) \cup {sCore} |-> IF n \in DOMAIN row THEN row[n] ELSE core]

\* mapping = dict(row); mapping['core'] = core_phrase
MakeMapping(row, core) ==
    [n \in (DOMAIN row) \cup {sCore} |-> IF n = sCore THEN core ELSE row[n]]

\* `if rendered:` : neither None nor the empty string
Truthy(r) == r # None /\ r[1] # <<>>

\* for tmpl in templates: rendered = render_template(tmpl, mapping);
\* if rendered: out.append(rendered)
RECURSIVE RenderEach(_, _)
RenderEach(tmpls, m) ==
    IF tmpls = <<>> THEN <<>>
    ELSE LET r == render_template(Head(tmpls), m)
         IN  (IF Truthy(r) THEN <<r[1]>> ELSE <<>>) \o RenderEach(Tail(tmpls), m)

\* core phrase outer, secondary row inner
generate_keywords_from_templates_list(cores, rows, tmpls) ==
    FlattenSeq([c \in 1..Len(cores) |->
        FlattenSeq([r \in 1..Len(rows) |->
            RenderEach(tmpls, MakeMapping(rows[r], cores[c]))])])

\* the flat variant's nesting in place of the row-grouped one
ExpandCoreOuter(cores, rows, tmpls) ==
    generate_keywords_from_templates_list(cores, rows, tmpls)

\* secondary row outer, core phrase middle, template inner
generate_keywords_from_templates_list_row_grouped(cores, rows, tmpls) ==
    FlattenSeq([r \in 1..Len(rows) |->
        FlattenSeq([c \in 1..Len(cores) |->
            RenderEach(tmpls, MakeMapping(rows[r], cores[c]))])])

\* core phrase outer, secondary row inner, positional rows
GenerateAllCoreOuter(cores, rows, mf) ==
    FlattenSeq([c \in 1..Len(cores) |->
        FlattenSeq([r \in 1..Len(rows) |->
            generate_keywords_with_core(cores[c], rows[r], mf)])])

\* secondary row outer, core phrase inner, positional rows
generate_all_keywords_list_row_grouped(cores, rows, mf) ==
    FlattenSeq([r \in 1..Len(rows) |->
        FlattenSeq([c \in 1..Len(cores) |->
            generate_keywords_with_core(cores[c], rows[r], mf)])])

---------------------------------------------------------------------------
(* Inputs of the row-grouped template expander *)

MaxCores == 2

MaxRows == 2

MaxTemplates == 2

phCore == <<"{">> \o sCore \o <<"}">>

\* "{core} {a}"
tCoreA == phCore \o <<" ">> \o phA

\* "{a}"
tA == phA

\* "{b} {core}"
tBCore == phB \o <<" ">> \o phCore

ExpandTemplates == {tCoreA, tA, tBCore}

Row(D, va, vb, vc) ==
    [n \in D |-> IF n = <<"a">> THEN va ELSE IF n = <<"b">> THEN vb ELSE vc]

rowPR == Row({<<"a">>, <<"b">>}, <<"p">>, <<"r">>, <<>>)

rowPEmpty == Row({<<"a">>, <<"b">>}, <<"p">>, <<>>, <<>>)

\* a row with a column named core and no column b
rowCoreKey == Row({<<"a">>, sCore}, <<"q">>, <<>>, <<"z">>)

ExpandRows == {rowPR, rowPEmpty, rowCoreKey}

InitExpand ==
    /\ pc = "expand_call"
    /\ use_template = TRUE
    /\ core_keywords \in SeqsUpTo(CorePhrases, MaxCores)
    /\ secondary_dict_rows \in SeqsUpTo(ExpandRows, MaxRows)
    /\ templates \in SeqsUpTo(ExpandTemplates, MaxTemplates)
    /\ secondary_rows = <<>>
    /\ headers_union = <<>>
    /\ raw_keywords = <<>>
    /\ FlowIdle
    /\ TableIdle
    /\ OutIdle
    /\ GenIdle
    /\ RenderIdle
    /\ DedupeIdle

CallExpandRowGrouped ==
    /\ pc = "expand_call"
    /\ raw_keywords' = generate_keywords_from_templates_list_row_grouped(
                          core_keywords, secondary_dict_rows, templates)
    /\ pc' = "expand_done"
    /\ UNCHANGED <<genVars, renderVars, dedupeVars, inputVars, flowVars, tableVars,
                   outVars>>

NextExpand == CallExpandRowGrouped

SpecExpand == InitExpand /\ [][NextExpand]_vars

---------------------------------------------------------------------------
(* Properties of the row-grouped template expander *)

\* the renders of the triples numbered k..n, the triples numbered with the
\* template index running fastest and the secondary row index slowest;
\* a render that gives no output contributes nothing
RECURSIVE RendersFrom(_, _, _, _, _)
RendersFrom(k, n, cores, rows, tmpls) ==
    IF k > n THEN <<>>
    ELSE LET C == Len(cores)
             T == Len(tmpls)
             r == ((k - 1) \div (C * T)) + 1
             c == (((k - 1) \div T) % C) + 1
             t == ((k - 1) % T) + 1
             m == [x \in (DOMAIN rows[r]) \cup {sCore} |->
                      IF x = sCore THEN cores[c] ELSE rows[r][x]]
             out == render_template(tmpls[t], m)
         IN  (IF out = None THEN <<>> ELSE out) \o RendersFrom(k + 1, n, cores, rows, tmpls)

\* C7: generate_keywords_from_templates_list_row_grouped returns exactly the
\* successful renders of all (secondary row, core phrase, template) triples,
\* secondary row outermost, core phrase in the middle, template innermost; a
\* triple with no output is omitted and changes nothing else.
C7_RowGroupedRenders ==
    pc = "expand_done" =>
        raw_keywords =
            RendersFrom(1, Len(secondary_dict_rows) * Len(core_keywords) * Len(templates),
                        core_keywords, secondary_dict_rows, templates)

C7_Witness ==
    /\ pc = "expand_done"
    /\ core_keywords = << <<"X">>, <<"a", " ", "b">> >>
    /\ secondary_dict_rows = <<rowPEmpty, rowPR>>
    /\ templates = <<tBCore, tCoreA>>
    /\ raw_keywords = << <<"X", " ", "p">>,
                         <<"a", " ", "b", " ", "p">>,
                         <<"r", " ", "X">>,
                         <<"X", " ", "p">>,
                         <<"r", " ", "a", " ", "b">>,
                         <<"a", " ", "b", " ", "p">> >>

\* the row without its field named core, if it has one
WithoutCoreField(row) == [n \in (DOMAIN row) \ {sCore} |-> row[n]]

\* C20: in every render of the expanders {core} resolves to the current core
\* phrase, also when the keyed row has a field named core with another value:
\* the output of both expanders is what the same rows give with that field
\* removed, and "{core} {a}" on the row (a = q, core = z) with core phrase c
\* gives "c q".
C20_CoreIsTheCorePhrase ==
    pc = "expand_done" =>
        LET stripped == [i \in 1..Len(secondary_dict_rows) |->
                            WithoutCoreField(secondary_dict_rows[i])]
            N == Len(secondary_dict_rows) * Len(core_keywords) * Len(templates)
        IN  /\ raw_keywords = RendersFrom(1, N, core_keywords, stripped, templates)
            /\ generate_keywords_from_templates_list(core_keywords, secondary_dict_rows,
                                                     templates)
                  = generate_keywords_from_templates_list(core_keywords, stripped, templates)
            /\ (rowCoreKey \in Range(secondary_dict_rows) /\ tCoreA \in Range(templates)) =>
                  \A c \in 1..Len(core_keywords) :
                      /\ (core_keywords[c] \o <<" ", "q">>) \in Range(raw_keywords)
                      /\ <<"z", " ", "q">> \notin Range(raw_keywords)

C20_Witness ==
    /\ pc = "expand_done"
    /\ core_keywords = << <<"X">> >>
    /\ secondary_dict_rows = <<rowCoreKey>>
    /\ templates = <<tCoreA, tBCore>>
    /\ raw_keywords = << <<"X", " ", "q">> >>

---------------------------------------------------------------------------
(* The loaders (keyword_builder.py).  A file is modelled by what the csv     *)
(* reader yields: the cells of the core column, the records of a secondary   *)
(* file, the first cells of the template file's rows.                       *)

\* [c.strip() for c in s]
StripAll(s) == [i \in 1..Len(s) |-> Strip(s[i])]

NonEmpty(c) == c # <<>>

\* line[core_column].strip() for the lines whose cell is non-empty after strip
load_core_keywords(cells) == SelectSeq(StripAll(cells), NonEmpty)

\* every cell of every row kept as read, stripped
LoadRowsKeepEmptyCells(records, skip_header) ==
    LET data == IF skip_header /\ records # <<>> THEN Tail(records) ELSE records
        rows == [i \in 1..Len(data) |-> StripAll(data[i])]
    IN  SelectSeq(rows, NonEmpty)

\* next(reader) when skip_header; per row the stripped non-empty cells; rows
\* left without a cell are dropped
load_secondary_rows(records, skip_header) ==
    LET data == IF skip_header /\ records # <<>> THEN Tail(records) ELSE records
        rows == [i \in 1..Len(data) |-> SelectSeq(StripAll(data[i]), NonEmpty)]
    IN  SelectSeq(rows, NonEmpty)

\* the position of the last column named name
LastColumn(fieldnames, name) ==
    CHOOSE k \in 1..Len(fieldnames) :
        /\ fieldnames[k] = name
        /\ \A m \in (k + 1)..Len(fieldnames) : fieldnames[m] # name

\* a record with more cells than the header row: csv.DictReader files the
\* surplus cells as a list under the key None, v.strip() of line 74 raises
\* AttributeError on it and the handler of line 84 ends the process
RecordTooLong(fieldnames, rec) == Len(rec) > Len(fieldnames)

\* cleaned = {k.strip(): v.strip() or ''} over the row csv.DictReader yields.
\* The row's keys are the column names as written, in the order of their
\* first columns; a name written twice holds the cell of its last column, or
\* None when the record is too short to reach that column. The comprehension
\* then lets, of the keys that are equal after strip, the last key win. No
\* value is specified for a record longer than the header row.
CleanRecord(fieldnames, rec) ==
    IF RecordTooLong(fieldnames, rec) THEN NoValue
    ELSE LET keys == dedupe_preserve_order(fieldnames)
             cell(k) == LET j == LastColumn(fieldnames, k)
                        IN  IF j <= Len(rec) THEN Strip(rec[j]) ELSE <<>>
         IN  [n \in {Strip(keys[i]) : i \in 1..Len(keys)} |->
                 cell(keys[CHOOSE i \in 1..Len(keys) :
                               /\ Strip(keys[i]) = n
                               /\ \A m \in (i + 1)..Len(keys) : Strip(keys[m]) # n])]

\* any(cleaned.get(h, '') for h in headers)
Usable(cleaned) == \E n \in DOMAIN cleaned : cleaned[n] # <<>>

\* the loader ends the process (exit status 1) in place of returning
ReadFails(fieldnames, records) ==
    \E i \in 1..Len(records) : RecordTooLong(fieldnames, records[i])

\* returns (rows, headers); fieldnames is the non-empty header row; no value
\* is returned when the read fails
load_secondary_dict_rows(fieldnames, records) ==
    IF ReadFails(fieldnames, records) THEN NoValue
    ELSE [rows |-> SelectSeq([i \in 1..Len(records) |->
                                 CleanRecord(fieldnames, records[i])], Usable),
          headers |-> StripAll(fieldnames)]

\* a line is kept when, stripped, it is not blank, does not start with '#' and
\* holds at least one {placeholder}
IsTemplateLine(t) ==
    /\ t # <<>>
    /\ t[1] # "#"
    /\ extract_placeholders(t) # <<>>

\* (row[0] or '') of a row; an empty row is skipped like a blank first cell
FirstCell(row) == IF row = <<>> THEN <<>> ELSE row[1]

load_templates(file) == SelectSeq(StripAll([i \in 1..Len(file) |-> FirstCell(file[i])]), IsTemplateLine)

---------------------------------------------------------------------------
(* Table (multi-column template) mode.  run.py imports its functions from    *)
(* keyword_builder, whose table functions are not part of the source at      *)
(* hand; they are modelled from the specification, section 4.4 and 4.5.      *)

\* a template source, given as the rows of cells its csv reader yields, is
\* multi-column when its header row has more than one column
is_multi_column_template(file) == file # <<>> /\ Len(file[1]) > 1

\* returns (tmpl_headers, tmpl_rows): the header row and the rows after it
load_template_table(file) == [headers |-> Head(file), rows |-> Tail(file)]

\* every cell of the template row rendered against the mapping
RenderCells(cells, m) == [i \in 1..Len(cells) |-> render_template(cells[i], m)]

\* the cells that rendered, the others left out
ExpandTemplateRowPartial(cells, m) ==
    LET rs == RenderCells(cells, m)
        ok == SelectSeq(rs, LAMBDA r : r # None)
    IN  IF ok = <<>> THEN <<>> ELSE << [i \in 1..Len(ok) |-> ok[i][1]] >>

\* the output rows of one template row: none if any cell renders to no
\* output, else the one row of the rendered cells
ExpandTemplateRow(cells, m) ==
    LET rs == RenderCells(cells, m)
    IN  IF \E i \in 1..Len(rs) : rs[i] = None
        THEN <<>>
        ELSE << [i \in 1..Len(rs) |-> rs[i][1]] >>

\* secondary row outer, core phrase middle, template row inner
generate_rows_from_template_table_list_row_grouped(cores, rows, trows) ==
    FlattenSeq([r \in 1..Len(rows) |->
        FlattenSeq([c \in 1..Len(cores) |->
            FlattenSeq([t \in 1..Len(trows) |->
                ExpandTemplateRow(trows[t], MakeMapping(rows[r], cores[c]))])])])

\* a forward scan with a seen-set, rows compared element-wise
dedupe_rows_preserve_order(rows) == DedupeScan(rows, {}, <<>>)

---------------------------------------------------------------------------
(* Inputs of the table expander *)

\* "{a}, {b}"
tAcommaB == phA \o <<",", " ">> \o phB

TableHeaders == << <<"h">>, <<"k">> >>

TableTemplateRows == {<<phCore, tA>>, <<phCore, tAcommaB>>, <<tBCore, phCore>>}

InitTable ==
    /\ pc = "table_call"
    /\ use_template = TRUE
    /\ table_template = TRUE
    /\ core_keywords \in SeqsUpTo(CorePhrases, MaxCores)
    /\ secondary_dict_rows \in SeqsUpTo(ExpandRows, MaxRows)
    /\ tmpl_headers = TableHeaders
    /\ tmpl_rows \in SeqsUpTo(TableTemplateRows, MaxTemplates)
    /\ secondary_rows = <<>>
    /\ headers_union = <<>>
    /\ templates = <<>>
    /\ source_headers = <<>>
    /\ raw_rows = <<>>
    /\ unique_rows = <<>>
    /\ written_csv = <<>>
    /\ raw_keywords = <<>>
    /\ FlowIdle
    /\ OutIdle
    /\ GenIdle
    /\ RenderIdle
    /\ DedupeIdle

CallExpandTable ==
    /\ pc = "table_call"
    /\ raw_rows' = generate_rows_from_template_table_list_row_grouped(
                      core_keywords, secondary_dict_rows, tmpl_rows)
    /\ pc' = "table_done"
    /\ UNCHANGED <<genVars, renderVars, dedupeVars, inputVars, raw_keywords, flowVars,
                   source_headers, table_template, tmpl_headers, tmpl_rows,
                   unique_rows, written_csv, outVars>>

NextTable == CallExpandTable

SpecTable == InitTable /\ [][NextTable]_vars

---------------------------------------------------------------------------
(* Properties of the table expander *)

\* the mapping of triple (r, c): the secondary row with core set to the core phrase
TripleMapping(r, c) ==
    [x \in (DOMAIN secondary_dict_rows[r]) \cup {sCore} |->
        IF x = sCore THEN core_keywords[c] ELSE secondary_dict_rows[r][x]]

\* every cell of template row t renders for the triple (r, c, t)
AllCellsRender(r, c, t) ==
    \A i \in 1..Len(tmpl_rows[t]) :
        render_template(tmpl_rows[t][i], TripleMapping(r, c)) # None

\* the (r, c, t) triples in traversal order whose cells all render
AcceptedTriples ==
    LET C == Len(core_keywords)
        T == Len(tmpl_rows)
        N == Len(secondary_dict_rows) * C * T
        tr(k) == <<((k - 1) \div (C * T)) + 1, (((k - 1) \div T) % C) + 1, ((k - 1) % T) + 1>>
    IN  SelectSeq([k \in 1..N |-> tr(k)],
                  LAMBDA x : AllCellsRender(x[1], x[2], x[3]))

sMissing == <<"m", "i", "s", "s", "i", "n", "g">>

\* ["{core}", "{city}, {missing}"]
ExampleTableRow ==
    <<phCore, <<"{">> \o sCity \o <<"}", ",", " ", "{">> \o sMissing \o <<"}">> >>

\* C14: in table mode an output row is emitted for a (secondary row, core
\* phrase, template row) combination only if every cell of the template row
\* renders; one cell with no output drops the whole row, so every emitted row
\* has as many cells as the header schema and holds the renders of all cells
\* of its template row; the template row ["{core}", "{city}, {missing}"] with
\* core X, city Reno and no field missing yields no row.
C14_TableRowsAtomic ==
    /\ pc = "table_done" =>
          /\ Len(raw_rows) = Len(AcceptedTriples)
          /\ \A k \in 1..Len(raw_rows) :
                LET x == AcceptedTriples[k]
                IN  /\ Len(raw_rows[k]) = Len(tmpl_headers)
                    /\ \A i \in 1..Len(raw_rows[k]) :
                          Some(raw_rows[k][i]) =
                              render_template(tmpl_rows[x[3]][i], TripleMapping(x[1], x[2]))
    /\ generate_rows_from_template_table_list_row_grouped(
           << <<"X">> >>, << [n \in {sCity} |-> sReno] >>, <<ExampleTableRow>>) = <<>>

\* a run where one template row is dropped for one secondary row (its second
\* cell needs the empty field b) and emitted for another
C14_Witness ==
    /\ pc = "table_done"
    /\ core_keywords = << <<"X">> >>
    /\ secondary_dict_rows = <<rowPEmpty, rowPR>>
    /\ tmpl_rows = << <<phCore, tAcommaB>> >>
    /\ raw_rows = << << <<"X">>, <<"p", ",", " ", "r">> >> >>

---------------------------------------------------------------------------
(* guided_flow (run.py): loading and validation *)

sNone == <<"n", "o", "n", "e">>

sAll == <<"a", "l", "l">>

sUnknown == <<"u", "n", "k", "n", "o", "w", "n">>

\* a name already seen is skipped without being recorded as a duplicate
RECURSIVE AccumulateHeadersNoDup(_, _, _)
AccumulateHeadersNoDup(hs, dup, union) ==
    IF hs = <<>> THEN [dup_headers |-> dup, headers_union |-> union]
    ELSE IF Head(hs) \in Range(union)
         THEN AccumulateHeadersNoDup(Tail(hs), dup, union)
         ELSE AccumulateHeadersNoDup(Tail(hs), dup, Append(union, Head(hs)))

\* for p in all_secondary_paths: for h in headers_i: a name already seen is a
\* duplicate, a new one is appended to headers_union
RECURSIVE AccumulateHeaders(_, _, _)
AccumulateHeaders(hs, dup, union) ==
    IF hs = <<>> THEN [dup_headers |-> dup, headers_union |-> union]
    ELSE IF Head(hs) \in Range(union)
         THEN AccumulateHeaders(Tail(hs), dup \cup {Head(hs)}, union)
         ELSE AccumulateHeaders(Tail(hs), dup, Append(union, Head(hs)))

\* merged = dict(a); merged.update(b)
MergeDicts(a, b) ==
    [n \in (DOMAIN a) \cup (DOMAIN b) |-> IF n \in DOMAIN b THEN b[n] ELSE a[n]]

\* the cartesian product of the sources' rows, starting from [{}]
RECURSIVE MergeSources(_, _)
MergeSources(accum, rows_sets) ==
    IF rows_sets = <<>> THEN accum
    ELSE LET rows_i == Head(rows_sets)
             new_accum == FlattenSeq([a \in 1..Len(accum) |->
                             [b \in 1..Len(rows_i) |-> MergeDicts(accum[a], rows_i[b])]])
         IN  MergeSources(new_accum, Tail(rows_sets))

\* only the first template is looked at
UnknownPlaceholdersFirstOnly(tmpls, allowed) ==
    IF tmpls = <<>> THEN {}
    ELSE {name \in Range(extract_placeholders(tmpls[1])) : name \notin allowed}

\* the placeholder names of the templates that are not in allowed
UnknownPlaceholders(tmpls, allowed) ==
    {name \in UNION {Range(extract_placeholders(tmpls[i])) : i \in 1..Len(tmpls)} :
        name \notin allowed}

PreviewLimit == 12

Take(s, n) == SubSeq(s, 1, Min(n, Len(s)))

\* the preview taken from the last row in place of the first
PreviewExampleLastRow(cores, rows, mf) ==
    IF cores = <<>> \/ rows = <<>> THEN <<>>
    ELSE Take(generate_keywords_with_core(cores[1], rows[Len(rows)], mf), PreviewLimit)

preview_example(cores, rows, mf) ==
    IF cores = <<>> \/ rows = <<>> THEN <<>>
    ELSE Take(generate_keywords_with_core(cores[1], rows[1], mf), PreviewLimit)

preview_example_templates(cores, rows, tmpls) ==
    IF cores = <<>> \/ rows = <<>> \/ tmpls = <<>> THEN <<>>
    ELSE Take(generate_keywords_from_templates_list(<<cores[1]>>, <<rows[1]>>, tmpls),
              PreviewLimit)

\* options = ["none", "core"], extended by the headers in template mode
GroupingOptions(template_mode, headers) ==
    {sNone, sCore} \cup (IF template_mode THEN Range(headers) ELSE {})

---------------------------------------------------------------------------
(* guided_flow: generation with first-occurrence grouping *)

\* gv = row.get(group_key, "") with no fallback for an empty value
GroupValueNoUnknown(gk, core, row) ==
    IF gk = sCore THEN core
    ELSE IF gk # sNone
         THEN (IF gk \in DOMAIN row THEN row[gk] ELSE <<>>)
         ELSE sAll

\* template mode: core / row.get(group_key, "") or "unknown" / "all"
GroupValueTemplate(gk, core, row) ==
    IF gk = sCore THEN core
    ELSE IF gk # sNone
         THEN (IF gk \in DOMAIN row /\ row[gk] # <<>> THEN row[gk] ELSE sUnknown)
         ELSE sAll

\* positional mode: gv = core if group_key == "core" else "all"
GroupValuePositional(gk, core) == IF gk = sCore THEN core ELSE sAll

\* for kw in row_keywords: kw_to_group[kw] = gv, whether recorded or not
RecordGroupsOverwrite(k2g, row_keywords, gv) ==
    [kw \in (DOMAIN k2g) \cup Range(row_keywords) |->
        IF kw \in Range(row_keywords) THEN gv ELSE k2g[kw]]

\* only the first phrase of the pair is recorded
RecordGroupsFirstOnly(k2g, row_keywords, gv) ==
    [kw \in (DOMAIN k2g) \cup Range(Take(row_keywords, 1)) |->
        IF kw \in DOMAIN k2g THEN k2g[kw] ELSE gv]

\* for kw in row_keywords: if kw not in kw_to_group: kw_to_group[kw] = gv
RecordGroups(k2g, row_keywords, gv) ==
    [kw \in (DOMAIN k2g) \cup Range(row_keywords) |->
        IF kw \in DOMAIN k2g THEN k2g[kw] ELSE gv]

\* the phrases of one (row, core) pair of the generation loops
RowKeywords(template_mode, core, row, tmpls) ==
    IF template_mode
    THEN generate_keywords_from_templates_list(<<core>>, <<row>>, tmpls)
    ELSE generate_keywords_with_core(core, row, None)

---------------------------------------------------------------------------
(* guided_flow: de-duplication choice, match type and saving *)

\* dup_count of summarize_duplicates: len(keywords) - len(set(keywords))
DupCount(kws) == Len(kws) - Cardinality(Range(kws))

\* final_keywords_raw = raw_keywords, whatever the answer
FinalKeywordsAlwaysRaw(raw, cl) == raw

\* final_keywords_raw: the de-duplicated list if clean, else the raw list
FinalKeywords(raw, cl) == IF cl THEN dedupe_preserve_order(raw) ELSE raw

\* 1: "kw" in double quotes, 2: [kw], anything else: unchanged
format_keywords_for_match(kws, mt) ==
    IF mt = 1 THEN [i \in 1..Len(kws) |-> <<"\"">> \o kws[i] \o <<"\"">>]
    ELSE IF mt = 2 THEN [i \in 1..Len(kws) |-> <<"[">> \o kws[i] \o <<"]">>]
    ELSE kws

UpperChars == <<"A", "B", "C", "D", "E", "F", "G", "H", "I", "J", "K", "L", "M",
                "N", "O", "P", "Q", "R", "S", "T", "U", "V", "W", "X", "Y", "Z">>

LowerChars == <<"a", "b", "c", "d", "e", "f", "g", "h", "i", "j", "k", "l", "m",
                "n", "o", "p", "q", "r", "s", "t", "u", "v", "w", "x", "y", "z">>

\* the upper-case letters of U+00C0 to U+00DE and, position by position,
\* their lower-case forms
UpperLatin1 ==
    <<"À", "Á", "Â", "Ã", "Ä", "Å", "Æ", "Ç", "È", "É", "Ê", "Ë", "Ì", "Í",
      "Î", "Ï", "Ð", "Ñ", "Ò", "Ó", "Ô", "Õ", "Ö", "Ø", "Ù", "Ú", "Û", "Ü",
      "Ý", "Þ">>

LowerLatin1 ==
    <<"à", "á", "â", "ã", "ä", "å", "æ", "ç", "è", "é", "ê", "ë", "ì", "í",
      "î", "ï", "ð", "ñ", "ò", "ó", "ô", "õ", "ö", "ø", "ù", "ú", "û", "ü",
      "ý", "þ">>

\* the characters of U+0020 to U+007E and U+00A0 to U+00FF that str.lower()
\* leaves as they are and that are neither letters a-z, lower-case forms of
\* LowerLatin1 nor whitespace: digits, punctuation, symbols, U+00DF, U+00FF
Uncased ==
    {"!", "\"", "#", "$", "%", "&", "'", "(", ")", "*", "+", ",", "-", ".",
     "/", "0", "1", "2", "3", "4", "5", "6", "7", "8", "9", ":", ";", "<",
     "=", ">", "?", "@", "[", "\\", "]", "^", "_", "{", "|", "}", "~", "¡",
     "¢", "£", "¤", "¥", "¦", "§", "¨", "©", "ª", "«", "¬", "­", "®", "¯",
     "°", "±", "²", "³", "´", "µ", "¶", "·", "¸", "¹", "º", "»", "¼", "½",
     "¾", "¿", "×", "ß", "÷", "ÿ"}

\* str.lower() on one character. It is modelled for the characters of U+0020
\* to U+007E and U+00A0 to U+00FF and for whitespace; on these str.lower()
\* maps character by character. No value is specified for another character
\* (beyond U+00FF str.lower() depends on the neighbours, for the final sigma,
\* and may return two characters, for U+0130).
Lower(c) ==
    IF Len(c) # 1 THEN NoValue
    ELSE IF \E i \in 1..Len(UpperChars) : UpperChars[i] = c
    THEN LowerChars[CHOOSE i \in 1..Len(UpperChars) : UpperChars[i] = c]
    ELSE IF \E i \in 1..Len(UpperLatin1) : UpperLatin1[i] = c
    THEN LowerLatin1[CHOOSE i \in 1..Len(UpperLatin1) : UpperLatin1[i] = c]
    ELSE IF c \in Range(LowerChars) \cup Range(LowerLatin1) \cup Uncased \cup Whitespace
    THEN c
    ELSE NoValue

\* str.lower() of a string of such characters
LowerAll(s) == [i \in 1..Len(s) |-> Lower(s[i])]

\* the class [a-z0-9_-]
SafeChars ==
    Range(LowerChars) \cup {"0", "1", "2", "3", "4", "5", "6", "7", "8", "9", "_", "-"}

\* re.sub(r"[^a-z0-9_-]+", "-", s): every run of other characters becomes one '-'
RECURSIVE ReplaceUnsafeRuns(_, _)
ReplaceUnsafeRuns(str, in_run) ==
    IF str = <<>> THEN <<>>
    ELSE IF Head(str) \in SafeChars
         THEN <<Head(str)>> \o ReplaceUnsafeRuns(Tail(str), FALSE)
         ELSE (IF in_run THEN <<>> ELSE <<"-">>) \o ReplaceUnsafeRuns(Tail(str), TRUE)

\* re.sub(r"-{2,}", "-", s)
RECURSIVE CollapseHyphens(_)
CollapseHyphens(str) ==
    IF Len(str) < 2 THEN str
    ELSE IF str[1] = "-" /\ str[2] = "-"
         THEN CollapseHyphens(Tail(str))
         ELSE <<Head(str)>> \o CollapseHyphens(Tail(str))

\* s.strip("-")
RECURSIVE StripHyphens(_)
StripHyphens(str) ==
    IF str = <<>> THEN <<>>
    ELSE IF Head(str) = "-" THEN StripHyphens(Tail(str))
    ELSE IF str[Len(str)] = "-" THEN StripHyphens(SubSeq(str, 1, Len(str) - 1))
    ELSE str

sanitize_component(str, fallback) ==
    LET lowered == LowerAll(Strip(str))
        out == StripHyphens(CollapseHyphens(ReplaceUnsafeRuns(lowered, FALSE)))
    IN  IF out # <<>> \/ fallback = None THEN out ELSE fallback[1]

SlugLimit == 80

sGroup == <<"g", "r", "o", "u", "p">>

slugify_for_filename(str) ==
    LET out == sanitize_component(str, None)
    IN  IF out = <<>> THEN sGroup ELSE Take(out, SlugLimit)

\* os.path.join(folder, name) for a relative name
PathJoin(folder, name) ==
    IF folder[Len(folder)] = "/" THEN folder \o name ELSE folder \o <<"/">> \o name

\* <folder>/<prefix><sep?><group_key>-<group_value>.<suffix>; the folder is
\* one that expanduser and expandvars leave as it is
derive_split_output_path(folder, prefix, gk, gv, suffix) ==
    LET dir == IF folder = <<>> THEN <<".">> ELSE folder
        key_slug == slugify_for_filename(IF gk = <<>> THEN sGroup ELSE gk)
        val_slug == slugify_for_filename(IF gv = <<>> THEN sUnknown ELSE gv)
        pre_slug == sanitize_component(prefix, None)
        key_val == key_slug \o <<"-">> \o val_slug
        name_base == IF pre_slug # <<>>
                     THEN (IF pre_slug[Len(pre_slug)] \in {"-", "_"}
                           THEN pre_slug \o key_val
                           ELSE pre_slug \o <<"-">> \o key_val)
                     ELSE key_val
    IN  PathJoin(dir, name_base \o <<".">> \o LowerAll(suffix))

\* kw_to_group.get(kw, "all")
GroupOf(k2g, kw) == IF kw \in DOMAIN k2g THEN k2g[kw] ELSE sAll

\* the keys of grouped in insertion order: by first phrase of each group
GroupOrder(final, k2g) ==
    dedupe_preserve_order([i \in 1..Len(final) |-> GroupOf(k2g, final[i])])

\* grouped[gv]: the phrases of the group in the order of final_keywords_raw
GroupMembers(final, k2g, gv) == SelectSeq(final, LAMBDA kw : GroupOf(k2g, kw) = gv)

\* the group looked up with the phrase already wrapped for its match type
SplitWritesWrapFirst(final, k2g, mt, folder, prefix, gk, suffix) ==
    LET wrapped == format_keywords_for_match(final, mt)
        order == GroupOrder(wrapped, k2g)
    IN  [i \in 1..Len(order) |->
            [path |-> derive_split_output_path(folder, prefix, gk, order[i], suffix),
             lines |-> GroupMembers(wrapped, k2g, order[i])]]

\* for gv, kws in grouped.items(): write_output(path of gv, formatted kws)
SplitWrites(final, k2g, mt, folder, prefix, gk, suffix) ==
    LET order == GroupOrder(final, k2g)
    IN  [i \in 1..Len(order) |->
            [path |-> derive_split_output_path(folder, prefix, gk, order[i], suffix),
             lines |-> format_keywords_for_match(GroupMembers(final, k2g, order[i]), mt)]]

---------------------------------------------------------------------------
(* Inputs of guided_flow and main: what the csv readers yield for the files  *)
(* and what the user answers                                                *)

FlowCores == {<<"a">>, <<"a", " ", "b">>}

\* the cells of the core column: also an empty cell and an untrimmed one
RawCoreCells == FlowCores \cup {<<>>, <<" ", "a">>}

LoadedCores == {load_core_keywords(cells) : cells \in SeqsUpTo(RawCoreCells, MaxCores)}

PositionalRows == {<< <<"a">> >>, << <<"a", " ", "b">> >>}

\* the records of a positional secondary file: also a record with an
\* untrimmed and an empty cell, and a record of one empty cell
RawPositionalRecords == PositionalRows \cup {<< <<" ", "a">>, <<>> >>, << <<>> >>}

LoadedPositional ==
    {load_secondary_rows(recs, skip) :
        recs \in SeqsUpTo(RawPositionalRecords, MaxRows), skip \in BOOLEAN}

\* a positional file of one record "a,b,c": three fields yield 24 phrases for
\* one core, more than a preview shows
WidePositional == {load_secondary_rows(<< << <<"a">>, <<"b">>, <<"c">> >> >>, FALSE)}

hA == <<"a">>

hB == <<"b">>

hC == <<"c">>

\* the header row "a, b" of the first secondary file
RawPrimaryFieldnames == <<hA, <<" ">> \o hB>>

\* its records: "p,r", "p,R", "p, ", "," and "p,r,s", one cell too long
RawKeyedRecords ==
    {<< <<"p">>, <<"r">> >>, << <<"p">>, <<"R">> >>, << <<"p">>, <<" ">> >>,
     << <<>>, <<>> >>, << <<"p">>, <<"r">>, <<"s">> >>}

\* the files whose read ends the process
FailingPrimaryFiles ==
    {recs \in SeqsUpTo(RawKeyedRecords, MaxRows) : ReadFails(RawPrimaryFieldnames, recs)}

\* what the loader returns for the files it reads to the end
PrimarySources ==
    {load_secondary_dict_rows(RawPrimaryFieldnames, recs) :
        recs \in SeqsUpTo(RawKeyedRecords, MaxRows) \ FailingPrimaryFiles}

srcC == [headers |-> <<hC>>, rows |-> <<Row({hC}, <<>>, <<>>, <<"u">>)>>]

\* a second source that declares column a again
srcDupA == [headers |-> <<hA>>, rows |-> <<Row({hA}, <<"w">>, <<>>, <<>>)>>]

ExtraSources == {<<>>, <<srcC>>, <<srcDupA>>}

\* "{core} {z}": z is no column of any source
tUnknown == phCore \o <<" ", "{", "z", "}">>

\* single-column template files: an empty one, one of a comment, a label and
\* a blank line, and three with templates
RawTemplateFiles ==
    {<<>>,
     << << <<"#", " ", "x">> >>, << <<"x">> >>, <<>> >>,
     << <<tA>>, << <<" ">> \o tCoreA >> >>,
     << <<tBCore>>, << <<"x">> >>, <<tA>> >>,
     << <<tCoreA>>, <<tUnknown>> >>}

FlowTemplateLists == {load_templates(file) : file \in RawTemplateFiles}

\* multi-column template files: header row h,k and the template rows; one
\* without rows, one whose cell names the unknown z
TableFiles ==
    {<<TableHeaders, <<phCore, tAcommaB>>, <<tBCore, phCore>> >>,
     <<TableHeaders>>,
     <<TableHeaders, <<phCore, tUnknown>> >>}

\* the answers to the path prompts
OutputPath == <<"k">>

OutFolder == <<"o">>

OutPrefixes == {<<>>, <<"X", "_">>}

OutSuffix == <<"t">>

\* `not a or not b or ...` with the last list left unchecked
AnyEmptyButLast(lists) == \E i \in 1..(Len(lists) - 1) : lists[i] = <<>>

\* `not a or not b or ...`: some mandatory input is empty
AnyEmpty(lists) == \E i \in 1..Len(lists) : lists[i] = <<>>

\* extract_placeholders_from_cells over the template rows
CellTemplates(trows) == FlattenSeq(trows)

InitGuided ==
    /\ pc = "guided_start"
    /\ PipelineIdle
    /\ GenIdle
    /\ RenderIdle
    /\ DedupeIdle

\* lines 506-546: the core phrases and the secondary sources of template mode;
\* the result names the exit taken, if any
LoadKeyedSources(sources) ==
    LET acc == AccumulateHeaders(
                  FlattenSeq([i \in 1..Len(sources) |-> sources[i].headers]), {}, <<>>)
    IN  [dup_headers |-> acc.dup_headers,
         headers_union |-> acc.headers_union,
         source_headers |-> [i \in 1..Len(sources) |-> sources[i].headers],
         merged |-> IF acc.dup_headers # {} THEN <<>>
                    ELSE MergeSources(<< <<>> >>, [i \in 1..Len(sources) |-> sources[i].rows])]

\* lines 506-520: the first secondary file of template mode holds a record
\* longer than its header row; load_secondary_dict_rows ends the process
\* after the core phrases have been loaded
GuidedReadFails ==
    /\ pc = "guided_start"
    /\ FailingPrimaryFiles # {}
    /\ \E cores \in LoadedCores :
          /\ use_template' = TRUE
          /\ core_keywords' = cores
    /\ pc' = "exit_read_error"
    /\ UNCHANGED <<secondary_rows, secondary_dict_rows, headers_union, templates,
                   raw_keywords, flowVars, genVars, renderVars, dedupeVars, tableVars,
                   outVars>>

\* lines 506-547 and 580-607, template mode with a single-column template file
GuidedLoadTemplate ==
    /\ pc = "guided_start"
    /\ \E cores \in LoadedCores, prim \in PrimarySources, extra \in ExtraSources,
          file \in RawTemplateFiles :
          LET ld == LoadKeyedSources(<<prim>> \o extra)
              tl == load_templates(file)
              allowed == {sCore} \cup Range(ld.headers_union)
          IN  /\ ~is_multi_column_template(file)
              /\ use_template' = TRUE
              /\ core_keywords' = cores
              /\ headers_union' = ld.headers_union
              /\ source_headers' = ld.source_headers
              /\ IF ld.dup_headers # {}
                 THEN /\ pc' = "exit_dup_headers"
                      /\ UNCHANGED <<secondary_dict_rows, templates>>
                 ELSE /\ secondary_dict_rows' = ld.merged
                      /\ templates' = tl
                      /\ pc' = IF UnknownPlaceholders(tl, allowed) # {}
                               THEN "exit_unknown_placeholder"
                               ELSE IF AnyEmpty(<<cores, ld.merged, tl>>)
                                    THEN "exit_empty_input"
                                    ELSE "loaded"
    /\ UNCHANGED <<secondary_rows, raw_keywords, flowVars, genVars, renderVars, dedupeVars,
                   table_template, tmpl_headers, tmpl_rows, raw_rows, unique_rows,
                   written_csv, outVars>>

\* lines 506-578, template mode with a multi-column template file
GuidedLoadTable ==
    /\ pc = "guided_start"
    /\ \E cores \in LoadedCores, prim \in PrimarySources, extra \in ExtraSources,
          file \in TableFiles :
          LET ld == LoadKeyedSources(<<prim>> \o extra)
              tt == load_template_table(file)
              allowed == {sCore} \cup Range(ld.headers_union)
          IN  /\ is_multi_column_template(file)
              /\ use_template' = TRUE
              /\ core_keywords' = cores
              /\ headers_union' = ld.headers_union
              /\ source_headers' = ld.source_headers
              /\ IF ld.dup_headers # {}
                 THEN /\ pc' = "exit_dup_headers"
                      /\ UNCHANGED <<secondary_dict_rows, table_template, tmpl_headers,
                                     tmpl_rows>>
                 ELSE /\ secondary_dict_rows' = ld.merged
                      /\ table_template' = TRUE
                      /\ tmpl_headers' = tt.headers
                      /\ tmpl_rows' = tt.rows
                      /\ pc' = IF UnknownPlaceholders(CellTemplates(tt.rows), allowed) # {}
                               THEN "exit_unknown_placeholder"
                               ELSE IF AnyEmpty(<<cores, ld.merged, tt.rows>>)
                                    THEN "exit_empty_input"
                                    ELSE "loaded"
    /\ UNCHANGED <<secondary_rows, templates, raw_keywords, flowVars, genVars, renderVars,
                   dedupeVars, raw_rows, unique_rows, written_csv, outVars>>

\* lines 506-508 and 608-617, full-permutation mode
GuidedLoadPositional ==
    /\ pc = "guided_start"
    /\ \E cores \in LoadedCores, rows \in LoadedPositional \cup WidePositional :
          /\ use_template' = FALSE
          /\ core_keywords' = cores
          /\ secondary_rows' = rows
          /\ pc' = IF AnyEmpty(<<cores, rows>>) THEN "exit_empty_input" ELSE "loaded"
    /\ UNCHANGED <<secondary_dict_rows, headers_union, templates, raw_keywords,
                   flowVars, genVars, renderVars, dedupeVars, tableVars, outVars>>

PreviewRowsLimit == 8

\* lines 619-654: the preview of the first core phrase with the first row; it
\* calls a generator unless an input is empty
GuidedPreview ==
    /\ pc = "loaded"
    /\ example' =
          IF use_template /\ table_template
          THEN (IF AnyEmpty(<<core_keywords, secondary_dict_rows, tmpl_rows>>) THEN <<>>
                ELSE Take(generate_rows_from_template_table_list_row_grouped(
                              Take(core_keywords, 1), Take(secondary_dict_rows, 1), tmpl_rows),
                          PreviewRowsLimit))
          ELSE IF use_template
               THEN preview_example_templates(core_keywords, secondary_dict_rows, templates)
               ELSE preview_example(core_keywords, secondary_rows, None)
    /\ gen_calls' =
          IF AnyEmpty(<<core_keywords,
                        IF use_template THEN secondary_dict_rows ELSE secondary_rows,
                        IF ~use_template THEN <<0>>
                        ELSE IF table_template THEN tmpl_rows ELSE templates>>)
          THEN gen_calls
          ELSE gen_calls + 1
    /\ pc' = "previewed"
    /\ UNCHANGED <<inputVars, raw_keywords, group_key, split_output, kw_to_group,
                   row_idx, core_idx, genVars, renderVars, dedupeVars, tableVars,
                   clean, final_keywords, match_type, written>>

\* lines 656-671: the grouping key and, unless it is "none", the split choice;
\* table mode has neither
GuidedChooseGrouping ==
    /\ pc = "previewed"
    /\ \E gk \in GroupingOptions(use_template, headers_union), so \in BOOLEAN :
          /\ (use_template /\ table_template) => gk = sNone
          /\ gk = sNone => so = FALSE
          /\ group_key' = gk
          /\ split_output' = so
    /\ pc' = "confirm"
    /\ UNCHANGED <<inputVars, raw_keywords, example, kw_to_group, row_idx, core_idx,
                   genVars, renderVars, dedupeVars, tableVars, outVars>>

\* lines 673-692 and 713-715: cancel, or go on to the table branch or to the
\* generation loops (which do nothing when there is no (row, core) pair)
GuidedConfirm ==
    /\ pc = "confirm"
    /\ \E proceed \in BOOLEAN :
          IF ~proceed
          THEN /\ pc' = "exit_cancel"
               /\ UNCHANGED <<raw_keywords, kw_to_group, row_idx, core_idx>>
          ELSE IF use_template /\ table_template
          THEN /\ pc' = "table_generate"
               /\ UNCHANGED <<raw_keywords, kw_to_group, row_idx, core_idx>>
          ELSE /\ pc' = IF core_keywords = <<>>
                           \/ (IF use_template THEN secondary_dict_rows
                               ELSE secondary_rows) = <<>>
                        THEN "generated" ELSE "generating"
               /\ raw_keywords' = <<>>
               /\ kw_to_group' = <<>>
               /\ row_idx' = 1
               /\ core_idx' = 1
    /\ UNCHANGED <<inputVars, example, group_key, split_output, genVars, renderVars,
                   dedupeVars, tableVars, outVars>>

\* lines 692-711: table mode generates, de-duplicates and writes the CSV
GuidedTableSave ==
    /\ pc = "table_generate"
    /\ LET rows == generate_rows_from_template_table_list_row_grouped(
                       core_keywords, secondary_dict_rows, tmpl_rows)
           uniq == dedupe_rows_preserve_order(rows)
       IN  /\ raw_rows' = rows
           /\ unique_rows' = uniq
           /\ written_csv' = Append(written_csv,
                 [path |-> OutputPath, headers |-> tmpl_headers, rows |-> uniq])
    /\ gen_calls' = gen_calls + 1
    /\ pc' = "done"
    /\ UNCHANGED <<inputVars, raw_keywords, flowVars, genVars, renderVars, dedupeVars,
                   source_headers, table_template, tmpl_headers, tmpl_rows,
                   clean, final_keywords, match_type, written>>

\* lines 716-740: one (row, core) iteration of the generation loops
GuidedGenerateStep ==
    /\ pc = "generating"
    /\ LET rows == IF use_template THEN secondary_dict_rows ELSE secondary_rows
           row == rows[row_idx]
           core == core_keywords[core_idx]
           row_keywords == RowKeywords(use_template, core, row, templates)
           gv == IF use_template THEN GroupValueTemplate(group_key, core, row)
                 ELSE GroupValuePositional(group_key, core)
       IN  /\ raw_keywords' = raw_keywords \o row_keywords
           /\ kw_to_group' = RecordGroups(kw_to_group, row_keywords, gv)
           /\ IF core_idx < Len(core_keywords)
              THEN /\ core_idx' = core_idx + 1
                   /\ UNCHANGED <<row_idx, pc>>
              ELSE IF row_idx < Len(rows)
                   THEN /\ row_idx' = row_idx + 1
                        /\ core_idx' = 1
                        /\ UNCHANGED pc
                   ELSE /\ pc' = "generated"
                        /\ UNCHANGED <<row_idx, core_idx>>
    /\ gen_calls' = gen_calls + 1
    /\ UNCHANGED <<inputVars, example, group_key, split_output, genVars, renderVars,
                   dedupeVars, tableVars, clean, final_keywords, match_type, written>>

\* lines 742-762: with duplicates the user chooses whether to remove them,
\* without duplicates clean is True
GuidedDedupe ==
    /\ pc = "generated"
    /\ \E cl \in BOOLEAN :
          /\ DupCount(raw_keywords) = 0 => cl = TRUE
          /\ clean' = cl
          /\ final_keywords' = FinalKeywords(raw_keywords, cl)
    /\ pc' = "deduped"
    /\ UNCHANGED <<inputVars, raw_keywords, flowVars, genVars, renderVars, dedupeVars,
                   tableVars, match_type, written, gen_calls>>

\* lines 764-770 and 820-823: the match type, then one file
GuidedSaveSingle ==
    /\ pc = "deduped"
    /\ ~(split_output /\ group_key # sNone)
    /\ \E mt \in 0..2 :
          /\ match_type' = mt
          /\ written' = Append(written,
                [path |-> OutputPath, lines |-> format_keywords_for_match(final_keywords, mt)])
    /\ pc' = "done"
    /\ UNCHANGED <<inputVars, raw_keywords, flowVars, genVars, renderVars, dedupeVars,
                   tableVars, clean, final_keywords, gen_calls>>

\* lines 764-800: the match type, then one file per group; the prefix is the
\* one the user settles on
GuidedSaveSplit ==
    /\ pc = "deduped"
    /\ split_output /\ group_key # sNone
    /\ \E mt \in 0..2, prefix \in OutPrefixes :
          /\ match_type' = mt
          /\ written' = written \o SplitWrites(final_keywords, kw_to_group, mt, OutFolder,
                                               prefix, group_key, OutSuffix)
    /\ pc' = "done"
    /\ UNCHANGED <<inputVars, raw_keywords, flowVars, genVars, renderVars, dedupeVars,
                   tableVars, clean, final_keywords, gen_calls>>

NextGuided ==
    \/ GuidedReadFails
    \/ GuidedLoadTemplate
    \/ GuidedLoadTable
    \/ GuidedLoadPositional
    \/ GuidedPreview
    \/ GuidedChooseGrouping
    \/ GuidedConfirm
    \/ GuidedTableSave
    \/ GuidedGenerateStep
    \/ GuidedDedupe
    \/ GuidedSaveSingle
    \/ GuidedSaveSplit

SpecGuided == InitGuided /\ [][NextGuided]_vars

---------------------------------------------------------------------------
(* main (keyword_builder.py): the argument-driven run *)

InitMain ==
    /\ pc = "main_start"
    /\ PipelineIdle
    /\ GenIdle
    /\ RenderIdle
    /\ DedupeIdle

\* lines 351-379: --template given; validation, then the check for empty inputs
MainLoadTemplate ==
    /\ pc = "main_start"
    /\ \E cores \in LoadedCores, src \in PrimarySources, file \in RawTemplateFiles :
          LET tl == load_templates(file)
              allowed == {sCore} \cup Range(src.headers)
          IN  /\ use_template' = TRUE
              /\ core_keywords' = cores
              /\ secondary_dict_rows' = src.rows
              /\ headers_union' = src.headers
              /\ source_headers' = <<src.headers>>
              /\ templates' = tl
              /\ pc' = IF UnknownPlaceholders(tl, allowed) # {}
                       THEN "exit_unknown_placeholder"
                       ELSE IF AnyEmpty(<<cores, src.rows, tl>>)
                            THEN "exit_empty_input"
                            ELSE "main_loaded"
    /\ UNCHANGED <<secondary_rows, raw_keywords, flowVars, genVars, renderVars, dedupeVars,
                   table_template, tmpl_headers, tmpl_rows, raw_rows, unique_rows,
                   written_csv, outVars>>

\* lines 351-354: the secondary file of --template holds a record longer than
\* its header row; load_secondary_dict_rows ends the process
MainReadFails ==
    /\ pc = "main_start"
    /\ FailingPrimaryFiles # {}
    /\ \E cores \in LoadedCores :
          /\ use_template' = TRUE
          /\ core_keywords' = cores
    /\ pc' = "exit_read_error"
    /\ UNCHANGED <<secondary_rows, secondary_dict_rows, headers_union, templates,
                   raw_keywords, flowVars, genVars, renderVars, dedupeVars, tableVars,
                   outVars>>

\* lines 351 and 388-393: no --template; --min-fields is kept for the generator
MainLoadPositional ==
    /\ pc = "main_start"
    /\ \E cores \in LoadedCores, rows \in LoadedPositional, mf \in MinFieldsChoices :
          /\ use_template' = FALSE
          /\ core_keywords' = cores
          /\ secondary_rows' = rows
          /\ min_fields' = mf
          /\ pc' = IF AnyEmpty(<<cores, rows>>) THEN "exit_empty_input" ELSE "main_loaded"
    /\ UNCHANGED <<secondary_dict_rows, headers_union, templates, raw_keywords,
                   flowVars, core_phrase, fields, results, renderVars, dedupeVars,
                   tableVars, outVars>>

\* lines 381-386 and 395-400: the row-grouped generator of the mode
MainGenerate ==
    /\ pc = "main_loaded"
    /\ raw_keywords' =
          IF use_template
          THEN generate_keywords_from_templates_list_row_grouped(
                   core_keywords, secondary_dict_rows, templates)
          ELSE generate_all_keywords_list_row_grouped(core_keywords, secondary_rows, min_fields)
    /\ gen_calls' = gen_calls + 1
    /\ pc' = "main_generated"
    /\ UNCHANGED <<inputVars, flowVars, genVars, renderVars, dedupeVars, tableVars,
                   clean, final_keywords, match_type, written>>

\* lines 403-406: de-duplicate and write
MainSave ==
    /\ pc = "main_generated"
    /\ unique_keywords' = dedupe_preserve_order(raw_keywords)
    /\ written' = Append(written,
          [path |-> OutputPath, lines |-> dedupe_preserve_order(raw_keywords)])
    /\ pc' = "main_done"
    /\ UNCHANGED <<inputVars, raw_keywords, flowVars, genVars, renderVars, keywords,
                   deduped_again, tableVars, clean, final_keywords, match_type,
                   gen_calls>>

NextMain ==
    \/ MainReadFails
    \/ MainLoadTemplate
    \/ MainLoadPositional
    \/ MainGenerate
    \/ MainSave

SpecMain == InitMain /\ [][NextMain]_vars

\* either entry point: the argument-driven main or the guided flow
InitRun == InitMain \/ InitGuided

NextRun == NextMain \/ NextGuided

SpecRun == InitRun /\ [][NextRun]_vars

---------------------------------------------------------------------------
(* Properties of the guided generation *)

FlowRows == IF use_template THEN secondary_dict_rows ELSE secondary_rows

\* the (row, core) pairs in traversal order: pair k has row PairRow(k) and
\* core PairCore(k), the core index running fastest
PairCount == Len(FlowRows) * Len(core_keywords)

PairRow(k) == FlowRows[((k - 1) \div Len(core_keywords)) + 1]

PairCore(k) == core_keywords[((k - 1) % Len(core_keywords)) + 1]

\* the pairs the generation loops have completed
DonePairs ==
    IF pc = "generated" THEN 1..PairCount
    ELSE IF pc = "generating"
         THEN 1..((row_idx - 1) * Len(core_keywords) + core_idx - 1)
         ELSE {}

PairProduces(k, P) ==
    P \in Range(RowKeywords(use_template, PairCore(k), PairRow(k), templates))

PairGroupValue(k) ==
    IF use_template THEN GroupValueTemplate(group_key, PairCore(k), PairRow(k))
    ELSE GroupValuePositional(group_key, PairCore(k))

\* C9: the group value recorded for a phrase P is the one computed for the
\* (secondary row, core) pair that produced P first in row -> core traversal
\* order; later productions of P never overwrite it.
C9_FirstOccurrenceGroup ==
    pc \in {"generating", "generated"} =>
        /\ Range(raw_keywords) = DOMAIN kw_to_group
        /\ \A P \in DOMAIN kw_to_group :
              \E k \in DonePairs :
                  /\ PairProduces(k, P)
                  /\ \A j \in 1..(k - 1) : ~PairProduces(j, P)
                  /\ kw_to_group[P] = PairGroupValue(k)

C9_Witness ==
    /\ pc = "generated"
    /\ \E P \in DOMAIN kw_to_group : \E j, k \in 1..PairCount :
          /\ j < k
          /\ PairProduces(j, P)
          /\ PairProduces(k, P)
          /\ PairRow(j) # PairRow(k)
          /\ PairGroupValue(j) # PairGroupValue(k)
          /\ kw_to_group[P] = PairGroupValue(j)

\* C10: the recorded group value is "all" when the grouping key is the
\* no-grouping sentinel, the producing core phrase when the key is core, and
\* otherwise the value of the chosen secondary field in the producing row, or
\* "unknown" when that field is absent or empty in that row.
C10_GroupValueRule ==
    pc \in {"generating", "generated"} =>
        \A P \in DOMAIN kw_to_group :
            \E k \in DonePairs :
                /\ PairProduces(k, P)
                /\ group_key = sNone => kw_to_group[P] = sAll
                /\ group_key = sCore => kw_to_group[P] = PairCore(k)
                /\ group_key \notin {sNone, sCore} =>
                      /\ use_template
                      /\ (group_key \in DOMAIN PairRow(k) /\ PairRow(k)[group_key] # <<>>)
                            => kw_to_group[P] = PairRow(k)[group_key]
                      /\ (group_key \notin DOMAIN PairRow(k) \/ PairRow(k)[group_key] = <<>>)
                            => kw_to_group[P] = sUnknown

C10_Witness ==
    /\ pc = "generated"
    /\ group_key = hB
    /\ \E P, Q \in DOMAIN kw_to_group :
          /\ kw_to_group[P] = sUnknown
          /\ kw_to_group[Q] = <<"r">>

---------------------------------------------------------------------------
(* Properties of the runs: validation *)

\* nothing has been generated and nothing written
NothingDone ==
    /\ gen_calls = 0
    /\ raw_keywords = <<>>
    /\ raw_rows = <<>>
    /\ example = <<>>
    /\ written = <<>>
    /\ written_csv = <<>>

\* the placeholder names the loaded templates (strings or table cells) refer to
ReferencedNames ==
    UNION ({PlaceholderNames(templates[i]) : i \in 1..Len(templates)}
           \cup UNION {{PlaceholderNames(tmpl_rows[i][j]) : j \in 1..Len(tmpl_rows[i])} :
                          i \in 1..Len(tmpl_rows)})

\* core and the headers the secondary sources declare
DeclaredNames ==
    {sCore} \cup UNION {Range(source_headers[i]) : i \in 1..Len(source_headers)}

\* C11: if a template refers to a placeholder name that is neither core nor a
\* declared secondary header, the run (main or guided flow) ends with the
\* unknown-placeholder error before any generator is called and without any
\* call of the output writer.
C11_UnknownPlaceholderFailsFast ==
    (ReferencedNames \ DeclaredNames # {}) =>
        /\ pc = "exit_unknown_placeholder"
        /\ NothingDone

C11_Witness ==
    /\ pc = "exit_unknown_placeholder"
    /\ templates = <<tCoreA, tUnknown>>
    /\ core_keywords # <<>>
    /\ secondary_dict_rows # <<>>
    /\ ReferencedNames \ DeclaredNames = {<<"z">>}
    /\ NothingDone

\* the loading step is over
Loaded == pc \notin {"main_start", "guided_start"}

\* a mandatory input of the chosen mode is empty
EmptyInput ==
    \/ core_keywords = <<>>
    \/ (IF use_template THEN secondary_dict_rows ELSE secondary_rows) = <<>>
    \/ use_template /\ (IF table_template THEN tmpl_rows ELSE templates) = <<>>

\* C17: with no core phrases, no usable secondary rows or (template mode) no
\* templates left after filtering, the run ends with an error without calling
\* a generator and without writing output.
C17_EmptyInputsFailFast ==
    (Loaded /\ EmptyInput) =>
        /\ pc \in {"exit_empty_input", "exit_unknown_placeholder", "exit_dup_headers",
                  "exit_read_error"}
        /\ NothingDone

\* the template file held only a comment, a label and a blank line, or nothing
C17_Witness ==
    /\ pc = "exit_empty_input"
    /\ use_template
    /\ ~table_template
    /\ templates = <<>>
    /\ core_keywords # <<>>
    /\ secondary_dict_rows # <<>>
    /\ NothingDone

\* some header name is declared by two of the secondary sources
HeaderCollision ==
    \E i, j \in 1..Len(source_headers) :
        /\ i < j
        /\ Range(source_headers[i]) \cap Range(source_headers[j]) # {}

\* C18: when a header name is declared by more than one secondary source of
\* template mode, the guided flow stops with the validation error before any
\* generation and before any output; the sources' rows are never merged.
C18_HeaderCollisionFailsFast ==
    HeaderCollision =>
        /\ pc = "exit_dup_headers"
        /\ secondary_dict_rows = <<>>
        /\ NothingDone

C18_Witness ==
    /\ pc = "exit_dup_headers"
    /\ source_headers = << <<hA, hB>>, <<hA>> >>
    /\ core_keywords # <<>>
    /\ secondary_dict_rows = <<>>
    /\ NothingDone

---------------------------------------------------------------------------
(* Properties of the runs: what reaches the generators *)

Trimmed(v) == Strip(v) = v

\* a generator has been or is about to be called on the loaded inputs
InputsInUse == pc \in {"loaded", "main_loaded"} \/ gen_calls > 0

\* C19 as stated: every core phrase and every secondary field value passed to
\* a generator, in positional and in keyed rows, is a trimmed non-empty string.
C19_NoEmptyAtoms ==
    InputsInUse =>
        /\ \A i \in 1..Len(core_keywords) :
              core_keywords[i] # <<>> /\ Trimmed(core_keywords[i])
        /\ \A i \in 1..Len(secondary_rows) : \A j \in 1..Len(secondary_rows[i]) :
              secondary_rows[i][j] # <<>> /\ Trimmed(secondary_rows[i][j])
        /\ \A i \in 1..Len(secondary_dict_rows) : \A n \in DOMAIN secondary_dict_rows[i] :
              secondary_dict_rows[i][n] # <<>> /\ Trimmed(secondary_dict_rows[i][n])

\* C19 amended: every core phrase and every value of a positional row passed
\* to a generator is a trimmed non-empty string, and positional rows are
\* non-empty; the values of a keyed row are trimmed but may be empty, a keyed
\* row having at least one non-empty value.
C19_TrimmedAtoms ==
    InputsInUse =>
        /\ \A i \in 1..Len(core_keywords) :
              core_keywords[i] # <<>> /\ Trimmed(core_keywords[i])
        /\ \A i \in 1..Len(secondary_rows) :
              /\ secondary_rows[i] # <<>>
              /\ \A j \in 1..Len(secondary_rows[i]) :
                    secondary_rows[i][j] # <<>> /\ Trimmed(secondary_rows[i][j])
        /\ \A i \in 1..Len(secondary_dict_rows) :
              /\ \A n \in DOMAIN secondary_dict_rows[i] : Trimmed(secondary_dict_rows[i][n])
              /\ \E n \in DOMAIN secondary_dict_rows[i] : secondary_dict_rows[i][n] # <<>>

\* a keyed row with an empty value has been rendered
C19_Witness ==
    /\ pc = "main_done"
    /\ use_template
    /\ secondary_dict_rows = <<rowPEmpty>>
    /\ templates = <<tA, tCoreA>>
    /\ core_keywords = << <<"a">> >>
    /\ raw_keywords = << <<"p">>, <<"a", " ", "p">> >>

---------------------------------------------------------------------------
(* Properties of the runs: what is handed to write_output *)

\* a phrase wrapped for a match type: 0 as it is, 1 in double quotes, 2 in
\* square brackets
WrapOf(ph, mt) ==
    IF mt = 1 THEN <<"\"">> \o ph \o <<"\"">>
    ELSE IF mt = 2 THEN <<"[">> \o ph \o <<"]">>
    ELSE ph

NoRepeats(sq) == \A i, j \in 1..Len(sq) : sq[i] = sq[j] => i = j

\* u holds the elements of xs once each, in the order of their first positions
IsDedupeOf(u, xs) ==
    /\ NoRepeats(u)
    /\ Range(u) = Range(xs)
    /\ \A i, j \in 1..Len(u) : i < j => FirstPos(xs, u[i]) < FirstPos(xs, u[j])

Occurrences(sq, x) == Cardinality({i \in 1..Len(sq) : sq[i] = x})

\* the lines of all write_output calls, in call order
AllWrittenLines == FlattenSeq([i \in 1..Len(written) |-> written[i].lines])

\* a phrase-producing run has saved its output
PhraseRunDone == pc = "main_done" \/ (pc = "done" /\ ~table_template)

SplitRun == split_output /\ group_key # sNone

\* C12 as stated: on every path that reaches write_output the written sequence
\* never holds a phrase twice and is the de-duplicated form of the raw
\* generated sequence.
C12_WrittenNeverRepeats ==
    PhraseRunDone =>
        /\ NoRepeats(AllWrittenLines)
        /\ Range(AllWrittenLines) = {WrapOf(ph, match_type) : ph \in Range(raw_keywords)}
        /\ ~SplitRun => IsDedupeOf(AllWrittenLines,
                                   [i \in 1..Len(raw_keywords) |->
                                       WrapOf(raw_keywords[i], match_type)])

\* C12 amended: main hands write_output the de-duplicated raw sequence. The
\* guided flow hands it the phrases of its final sequence, wrapped for the
\* match type: the final sequence is the de-duplicated raw sequence when the
\* raw sequence has no duplicate or the user has duplicates removed, and the
\* raw sequence itself, duplicates kept, when the user declines; the single
\* file holds that sequence whole and in order, the split files together hold
\* every occurrence of it once.
C12_WrittenIsFinalSequence ==
    /\ pc = "main_done" =>
          /\ Len(written) = 1
          /\ IsDedupeOf(written[1].lines, raw_keywords)
    /\ (pc = "done" /\ ~table_template) =>
          /\ clean => IsDedupeOf(final_keywords, raw_keywords)
          /\ ~clean => (final_keywords = raw_keywords /\ ~NoRepeats(raw_keywords))
          /\ NoRepeats(raw_keywords) => clean
          /\ ~SplitRun =>
                /\ Len(written) = 1
                /\ written[1].lines =
                      [i \in 1..Len(final_keywords) |-> WrapOf(final_keywords[i], match_type)]
          /\ SplitRun =>
                /\ Len(AllWrittenLines) = Len(final_keywords)
                /\ \A ph \in Range(final_keywords) :
                      Occurrences(AllWrittenLines, WrapOf(ph, match_type))
                          = Occurrences(final_keywords, ph)

\* the guided flow has saved raw phrases with their duplicates, in quotes
C12_Witness ==
    /\ pc = "done"
    /\ ~use_template
    /\ clean = FALSE
    /\ match_type = 1
    /\ core_keywords = << <<"a">>, <<"a">> >>
    /\ secondary_rows = << << <<"a">> >> >>
    /\ written = << [path |-> OutputPath,
                     lines |-> [i \in 1..4 |-> <<"\"", "a", " ", "a", "\"">>]] >>

\* the group the split looks up for a phrase of the final sequence
LookedUpGroup(ph) == IF ph \in DOMAIN kw_to_group THEN kw_to_group[ph] ELSE sAll

\* C13: every line the guided flow writes is wrap(p) for a phrase p of the
\* final sequence (post-generation, post-de-duplication), wrap being the
\* identity for broad, double quotes for phrase and square brackets for exact;
\* the wrapping comes after generation, de-duplication and group lookup (no
\* wrapped string is among the generated phrases, the final sequence or the
\* keys of the group mapping, and each split file holds the wrapped phrases of
\* one looked-up group), and it changes neither the number nor the order of
\* the lines.
C13_WrappingIsLast ==
    (pc = "done" /\ ~table_template) =>
        /\ ~SplitRun =>
              /\ Len(written) = 1
              /\ Len(written[1].lines) = Len(final_keywords)
              /\ \A i \in 1..Len(final_keywords) :
                    written[1].lines[i] = WrapOf(final_keywords[i], match_type)
        /\ SplitRun =>
              /\ Len(AllWrittenLines) = Len(final_keywords)
              /\ \A k \in 1..Len(written) :
                    \E g \in {LookedUpGroup(ph) : ph \in Range(final_keywords)} :
                        LET members == SelectSeq(final_keywords,
                                                 LAMBDA ph : LookedUpGroup(ph) = g)
                        IN  written[k].lines =
                                [i \in 1..Len(members) |-> WrapOf(members[i], match_type)]
        /\ match_type # 0 =>
              Range(AllWrittenLines) \cap
                  (Range(raw_keywords) \cup Range(final_keywords) \cup DOMAIN kw_to_group) = {}

\* a split run in exact match: one file for the group r of column b
C13_Witness ==
    /\ pc = "done"
    /\ use_template
    /\ core_keywords = << <<"a">>, <<"a", " ", "b">> >>
    /\ secondary_dict_rows = <<rowPR, rowPEmpty>>
    /\ templates = <<tA, tCoreA>>
    /\ group_key = hB
    /\ split_output
    /\ match_type = 2
    /\ written = << [path |-> <<"o", "/", "x", "_", "b", "-", "r", ".", "t">>,
                     lines |-> << <<"[", "p", "]">>,
                                  <<"[", "a", " ", "p", "]">>,
                                  <<"[", "a", " ", "b", " ", "p", "]">> >>] >>

\* the paths write_output has been called with
WrittenPaths == {written[i].path : i \in 1..Len(written)}

\* open(path, 'w'): a file holds the lines of the last write to its path
FileLines(path) ==
    written[CHOOSE i \in 1..Len(written) :
                /\ written[i].path = path
                /\ \A j \in (i + 1)..Len(written) : written[j].path # path].lines

\* C22: in guided split-output mode, after all group files have been written
\* every phrase of the final sequence is present in exactly one written file:
\* distinct group values map to distinct output paths, so no group's file is
\* overwritten by the write of a later group.
C22_EveryPhraseInOneFile ==
    (pc = "done" /\ ~table_template /\ SplitRun) =>
        /\ \A i, j \in 1..Len(written) : written[i].path = written[j].path => i = j
        /\ \A ph \in Range(final_keywords) :
              Cardinality({path \in WrittenPaths :
                              WrapOf(ph, match_type) \in Range(FileLines(path))}) = 1

\* the final sequence wrapped for the match type, line by line
WrappedFinal == [i \in 1..Len(final_keywords) |-> WrapOf(final_keywords[i], match_type)]

\* the phrases of the final sequence that the k-th write holds
PhrasesOfWrite(k) ==
    {ph \in Range(final_keywords) : WrapOf(ph, match_type) \in Range(written[k].lines)}

\* C23: in guided split-output mode the groups partition the final sequence:
\* every phrase of the final sequence has a recorded entry in kw_to_group (the
\* "all" fallback of the lookup is never taken), each phrase occurrence is
\* placed in exactly one group (one write per recorded group value, together
\* holding every occurrence once), and within each group the phrases keep
\* their relative order from the final sequence.
C23_GroupsPartitionFinal ==
    /\ (SplitRun /\ ~table_template /\ pc \in {"deduped", "done"}) =>
          Range(final_keywords) \subseteq DOMAIN kw_to_group
    /\ (SplitRun /\ ~table_template /\ pc = "done") =>
          /\ Len(AllWrittenLines) = Len(final_keywords)
          /\ \A ph \in Range(final_keywords) :
                /\ Occurrences(AllWrittenLines, WrapOf(ph, match_type))
                      = Occurrences(final_keywords, ph)
                /\ Cardinality({k \in 1..Len(written) : ph \in PhrasesOfWrite(k)}) = 1
          /\ \A k \in 1..Len(written) :
                /\ written[k].lines # <<>>
                /\ written[k].lines =
                      SelectSeq(WrappedFinal, LAMBDA l : l \in Range(written[k].lines))
                /\ \E g \in {kw_to_group[ph] : ph \in DOMAIN kw_to_group} :
                      PhrasesOfWrite(k) =
                          {ph \in Range(final_keywords) : kw_to_group[ph] = g}
          /\ \A k1, k2 \in 1..Len(written) :
                (\E p1 \in PhrasesOfWrite(k1), p2 \in PhrasesOfWrite(k2) :
                    kw_to_group[p1] = kw_to_group[p2]) => k1 = k2

\* a split by column b with duplicates kept: group r holds three occurrences
\* in the order of the final sequence, group R one
C23_Witness ==
    /\ pc = "done"
    /\ SplitRun
    /\ use_template
    /\ group_key = hB
    /\ clean = FALSE
    /\ match_type = 0
    /\ final_keywords = << <<"r", " ", "a">>, <<"p">>, <<"R", " ", "a">>, <<"p">> >>
    /\ Len(written) = 2
    /\ written[1].lines = << <<"r", " ", "a">>, <<"p">>, <<"p">> >>
    /\ written[2].lines = << <<"R", " ", "a">> >>

\* the guided flow's generation loops have run to their end
GenerationDone == ~table_template /\ pc \in {"generated", "deduped", "done"}

\* C24: the raw sequence built by the guided flow's own row -> core loops
\* (generate_keywords_from_templates_list([core], [row], templates) in template
\* mode, generate_keywords_with_core(core, row, None) in positional mode) is
\* element for element the output of
\* generate_keywords_from_templates_list_row_grouped(cores, rows, templates),
\* respectively generate_all_keywords_list_row_grouped(cores, rows, None), on
\* the same inputs.
C24_LoopsEqualRowGrouped ==
    GenerationDone =>
        /\ use_template =>
              raw_keywords = generate_keywords_from_templates_list_row_grouped(
                                 core_keywords, secondary_dict_rows, templates)
        /\ ~use_template =>
              raw_keywords = generate_all_keywords_list_row_grouped(
                                 core_keywords, secondary_rows, None)

\* positional mode, two rows and two cores: the third phrase comes from the
\* second core with the first row
C24_Witness ==
    /\ pc = "generated"
    /\ ~use_template
    /\ core_keywords = << <<"a">>, <<"a", " ", "b">> >>
    /\ secondary_rows = << << <<"a">> >>, << <<"a", " ", "b">> >> >>
    /\ Len(raw_keywords) = 8
    /\ raw_keywords[3] = <<"a", " ", "b", " ", "a">>
    /\ raw_keywords[5] = <<"a", " ", "a", " ", "b">>

\* k: the number of phrases of the first secondary row with the first core
FirstPairCount ==
    Len(RowKeywords(use_template, core_keywords[1],
                    IF use_template THEN secondary_dict_rows[1] ELSE secondary_rows[1],
                    templates))

\* C25: the preview shown before generation is a prefix of the full raw
\* sequence later generated: preview_example and preview_example_templates
\* return the first min(12, k) elements of the row-grouped raw sequence, k
\* being the number of phrases produced by the first secondary row with the
\* first core phrase.
C25_PreviewIsPrefix ==
    GenerationDone =>
        /\ Len(example) = Min(PreviewLimit, FirstPairCount)
        /\ Len(example) <= Len(raw_keywords)
        /\ example = SubSeq(raw_keywords, 1, Len(example))

\* one core with a row of three fields: 24 phrases, of which the preview
\* showed the first 12
C25_Witness ==
    /\ pc = "generated"
    /\ ~use_template
    /\ core_keywords = << <<"a">> >>
    /\ secondary_rows = << << <<"a">>, <<"b">>, <<"c">> >> >>
    /\ Len(raw_keywords) = 24
    /\ Len(example) = 12
    /\ example = SubSeq(raw_keywords, 1, 12)
    /\ example[12] # raw_keywords[13]

---------------------------------------------------------------------------
Init == InitGen \/ InitRender \/ InitDedupe \/ InitExpand \/ InitTable \/ InitRun

Next == NextGen \/ NextRender \/ NextDedupe \/ NextExpand \/ NextTable \/ NextRun


Spec == Init /\ [][Next]_vars

===========================================================================
